---------------------------- MODULE Spec2Model ----------------------------
(***************************************************************************)
(* Model of the item accumulator and temporal resolver of parse_datetime   *)
(* (src/src/items/mod.rs, src/src/items/builder.rs), and of the TZ rule    *)
(* interpreter (src/src/items/tz_rule.rs), which has its own section.      *)
(*                                                                         *)
(* `parse` is a loop around `parse_one`; every iteration of the loop is    *)
(* one action.  `at_date` / `at_local` run `DateTimeBuilder::build` on the *)
(* value `parse` returned.                                                 *)
(*                                                                         *)
(* Representation.                                                         *)
(*  - Option<T>: the empty tuple <<>> is None, <<v>> is Some(v).           *)
(*  - DateTime<FixedOffset>: [days, sod, nano, off], the local wall clock  *)
(*    (days since 1970-01-01, second of the day, nanosecond) and the       *)
(*    offset in seconds east of UTC.  chrono keeps the UTC datetime and    *)
(*    the offset; the two are in bijection (UtcOf).  Days and seconds are  *)
(*    kept apart so that no intermediate value leaves the integer range.   *)
(*  - f64 seconds (time::Time::second, Relative::Seconds): a count of      *)
(*    milliseconds; `as u32` / `as i64` truncate it, `fract()` is the      *)
(*    remainder.                                                           *)
(*  - The input string: a sequence of chunks.  A chunk is the piece of     *)
(*    text one call of `parse_one` looks at (leading whitespace included); *)
(*    it is described by what each of the eight alternatives of `alt`      *)
(*    does on it: soft failure, hard (cut) failure, or success with a      *)
(*    fragment.  A chunk of whitespace only is WS.                         *)
(***************************************************************************)
EXTENDS Integers, Sequences, FiniteSets, TLC

VARIABLES
    input,      \* the chunks of the input string
    pos,        \* index of the first chunk not yet consumed
    builder,    \* the local `builder` of `parse`
    pc,         \* "loop": inside parse's loop; "parsed": parse returned;
                \* "resolved": at_date / at_local returned; "tz" and
                \* "tz_...": before and after a parser of tz_rule.rs
    ret,        \* what parse returned: <<>> until it returns
    base,       \* the base instant handed to build: <<>> until then
    out         \* what at_date / at_local returned: <<>> until then

vars == <<input, pos, builder, pc, ret, base, out>>

None == <<>>
Some(v) == <<v>>
IsSome(o) == o # <<>>
Unwrap(o) == o[1]

-----------------------------------------------------------------------------
(* chrono: the proleptic Gregorian calendar *)

IsLeapYear(y) == (y % 4 = 0 /\ y % 100 # 0) \/ y % 400 = 0

\* Days since 1970-01-01 of the civil date y-m-d.
DaysFromCivil(y, m, d) ==
    LET yy  == IF m <= 2 THEN y - 1 ELSE y
        era == yy \div 400
        yoe == yy - era * 400
        mp  == IF m > 2 THEN m - 3 ELSE m + 9
        doy == (153 * mp + 2) \div 5 + d - 1
        doe == yoe * 365 + yoe \div 4 - yoe \div 100 + doy
    IN  era * 146097 + doe - 719468

\* The civil date of a count of days since 1970-01-01.
CivilFromDays(z0) ==
    LET z   == z0 + 719468
        era == z \div 146097
        doe == z - era * 146097
        yoe == (doe - doe \div 1460 + doe \div 36524 - doe \div 146096) \div 365
        doy == doe - (365 * yoe + yoe \div 4 - yoe \div 100)
        mp  == (5 * doy + 2) \div 153
        d   == doy - (153 * mp + 2) \div 5 + 1
        m   == IF mp < 10 THEN mp + 3 ELSE mp - 9
        y   == yoe + era * 400 + (IF m <= 2 THEN 1 ELSE 0)
    IN  [year |-> y, month |-> m, day |-> d]

\* chrono's NaiveDate covers the years -262143 ..= 262142.
YearInRange(y) == y >= -262143 /\ y <= 262142
DaysInRange(z) == z >= DaysFromCivil(-262143, 1, 1) /\ z <= DaysFromCivil(262142, 12, 31)
\* No two dates are further apart than this many days.
DateSpan == DaysFromCivil(262142, 12, 31) - DaysFromCivil(-262143, 1, 1)

\* NaiveDate::from_ymd_opt(y, m, 1) ... pred_opt().day(): the length of a month.
MonthLength(y, m) ==
    IF m = 2 THEN (IF IsLeapYear(y) THEN 29 ELSE 28)
    ELSE IF m \in {4, 6, 9, 11} THEN 30 ELSE 31

\* NaiveDate::from_ymd_opt: Option of a count of days.
from_ymd_opt(y, m, d) ==
    IF YearInRange(y) /\ m >= 1 /\ m <= 12 /\ d >= 1 /\ d <= MonthLength(y, m)
    THEN Some(DaysFromCivil(y, m, d))
    ELSE None

\* NaiveDate::and_hms_nano_opt: Option of [sod, nano].
and_hms_nano_opt(hour, minute, second, nano) ==
    IF hour >= 24 \/ minute >= 60 \/ second >= 60
       \/ (nano >= 1000000000 /\ second # 59) \/ nano >= 2000000000
    THEN None
    ELSE Some([sod |-> hour * 3600 + minute * 60 + second, nano |-> nano])

\* Datelike / Timelike readers of a DateTime<FixedOffset> (local fields).
YearOf(dt)   == CivilFromDays(dt.days).year
MonthOf(dt)  == CivilFromDays(dt.days).month
DayOf(dt)    == CivilFromDays(dt.days).day
HourOf(dt)   == dt.sod \div 3600
MinuteOf(dt) == (dt.sod % 3600) \div 60
SecondOf(dt) == dt.sod % 60
\* Weekday::num_days_from_monday of the local date (1970-01-01 was a Thursday).
WeekdayOf(dt) == (dt.days + 3) % 7

\* The UTC datetime chrono stores for dt, as <<days, second of day, nano>>.
UtcOf(dt) ==
    LET s == dt.sod - dt.off
    IN  <<dt.days + s \div 86400, s % 86400, dt.nano>>

\* PartialEq of DateTime: the same instant, whatever the offsets.
SameInstant(a, b) == UtcOf(a) = UtcOf(b)

ZeroDt == [days |-> 0, sod |-> 0, nano |-> 0, off |-> 0]

\* Results of a computation that may return None or abort. `ovf` tells that an
\* integer operation overflowed on the way: a build with overflow checks
\* aborted there, and the rest of the record is what a build without them
\* goes on to with the wrapped value.
SomeR(dt) == [tag |-> "some", dt |-> dt, ovf |-> FALSE]
NoneR     == [tag |-> "none", dt |-> ZeroDt, ovf |-> FALSE]
PanicR    == [tag |-> "panic", dt |-> ZeroDt, ovf |-> FALSE]
Overflowed(r, flag) == [r EXCEPT !.ovf = r.ovf \/ flag]

\* The range check every DateTime arithmetic of chrono ends with (on the UTC
\* datetime it stores).
DtInRange(dt) == DaysInRange(UtcOf(dt)[1])

\* `dt + TimeDelta` split in whole days and seconds; None when out of range.
checked_add(dt, d, s) ==
    LET t  == dt.sod + s
        nd == [dt EXCEPT !.days = dt.days + d + t \div 86400, !.sod = t % 86400]
    IN  IF d > DateSpan \/ d < -DateSpan THEN NoneR
        ELSE IF DtInRange(nd) THEN SomeR(nd) ELSE NoneR

\* `dt += TimeDelta`: AddAssign panics where checked_add returns None.
add_assign(dt, d, s) ==
    LET r == checked_add(dt, d, s)
    IN  IF r.tag = "some" THEN r ELSE PanicR


\* A DateTime from a UTC datetime and an offset (DateTime::with_timezone,
\* TimeZone::timestamp_opt): the same instant, read in the offset `off`.
from_utc(days, sod, nano, off) ==
    LET t == sod + off
    IN  [days |-> days + t \div 86400, sod |-> t % 86400, nano |-> nano, off |-> off]

with_timezone(dt, off) == from_utc(UtcOf(dt)[1], UtcOf(dt)[2], dt.nano, off)

\* Datelike::with_year / with_month / with_day and Timelike::with_hour / ... of
\* a DateTime: the local field is replaced, None when no such date or time exists
\* or the result is out of range.
with_ymd(dt, y, m, d) ==
    LET nd == from_ymd_opt(y, m, d)
    IN  IF IsSome(nd) /\ DtInRange([dt EXCEPT !.days = Unwrap(nd)])
        THEN SomeR([dt EXCEPT !.days = Unwrap(nd)])
        ELSE NoneR

\* Mutant: a day the month of the new year does not have becomes its last day.
with_year_clamped(dt, y) ==
    with_ymd(dt, y, MonthOf(dt),
             IF DayOf(dt) > MonthLength(y, MonthOf(dt)) THEN MonthLength(y, MonthOf(dt))
             ELSE DayOf(dt))

with_year(dt, y)  == with_ymd(dt, y, MonthOf(dt), DayOf(dt))
with_month(dt, m) == with_ymd(dt, YearOf(dt), m, DayOf(dt))
with_day(dt, d)   == with_ymd(dt, YearOf(dt), MonthOf(dt), d)

with_hms_nano(dt, h, mi, s, n) ==
    LET t == and_hms_nano_opt(h, mi, s, n)
    IN  IF IsSome(t) /\ DtInRange([dt EXCEPT !.sod = Unwrap(t).sod, !.nano = Unwrap(t).nano])
        THEN SomeR([dt EXCEPT !.sod = Unwrap(t).sod, !.nano = Unwrap(t).nano])
        ELSE NoneR

with_hour(dt, h)       == with_hms_nano(dt, h, MinuteOf(dt), SecondOf(dt), dt.nano)
with_minute(dt, mi)    == with_hms_nano(dt, HourOf(dt), mi, SecondOf(dt), dt.nano)
with_second(dt, s)     == with_hms_nano(dt, HourOf(dt), MinuteOf(dt), s, dt.nano)
with_nanosecond(dt, n) == with_hms_nano(dt, HourOf(dt), MinuteOf(dt), SecondOf(dt), n)

\* DateTime::checked_add_days / checked_sub_days with a signed count.
checked_add_days(dt, n) == checked_add(dt, n, 0)

\* The `?` operator: the computation goes on with the value r holds, and ends
\* with r when it holds none.
Failed(r) == r.tag # "some"
Then(r, F(_)) == IF Failed(r) THEN r ELSE Overflowed(F(r.dt), r.ovf)

-----------------------------------------------------------------------------
(* The fragments (src/src/items/{date,time,weekday,relative}.rs hold their
   parsers; the accumulator and the resolver read their fields). *)

\* time::Offset as seconds east of UTC; FixedOffset::try_from(Offset).ok():
\* a FixedOffset exists for less than a day either way.
try_from_offset(o) == IF o > -86400 /\ o < 86400 THEN Some(o) ELSE None

Date(day, month, year) == [day |-> day, month |-> month, year |-> year]
Time(hour, minute, second, offset) ==
    [hour |-> hour, minute |-> minute, second |-> second, offset |-> offset]
Weekday(offset, day) == [offset |-> offset, day |-> day]
Relative(unit, x) == [unit |-> unit, x |-> x]
CombinedDateTime(d, t) == [date |-> d, time |-> t]

Item(kind, val) == [kind |-> kind, val |-> val]

-----------------------------------------------------------------------------
(* DateTimeBuilder *)

new ==
    [timestamp |-> None, date |-> None, time |-> None, weekday |-> None,
     timezone |-> None, relative |-> <<>>]

set_timestamp(b, ts) == [b EXCEPT !.timestamp = Some(ts)]

\* Mutant: the year is stored in a builder that keeps nothing else.
set_year_resets(b, year) ==
    IF IsSome(b.date)
    THEN [new EXCEPT !.date = Some([Unwrap(b.date) EXCEPT !.year = Some(year)])]
    ELSE [new EXCEPT !.date = Some(Date(1, 1, Some(year)))]

\* Mutant: the year always makes a date of its own, the first of January.
set_year_alone(b, year) == [b EXCEPT !.date = Some(Date(1, 1, Some(year)))]

set_year(b, year) ==
    IF IsSome(b.date)
    THEN [b EXCEPT !.date = Some([Unwrap(b.date) EXCEPT !.year = Some(year)])]
    ELSE [b EXCEPT !.date = Some(Date(1, 1, Some(year)))]

set_date(b, d) == [b EXCEPT !.date = Some(d)]

set_time(b, t) == [b EXCEPT !.time = Some(t)]

set_weekday(b, w) == [b EXCEPT !.weekday = Some(w)]

set_timezone(b, tz) == [b EXCEPT !.timezone = Some(tz)]

\* Mutant: the unit is put at the head of the list.
set_relative_front(b, rel) == [b EXCEPT !.relative = <<rel>> \o b.relative]

set_relative(b, rel) == [b EXCEPT !.relative = Append(b.relative, rel)]

-----------------------------------------------------------------------------
(* parse_one: the ordered choice over the eight fragment parsers *)

\* What one alternative does on a chunk.
Soft  == [res |-> "soft", val |-> None]
Cut   == [res |-> "cut", val |-> None]
Ok(v) == [res |-> "ok", val |-> Some(v)]

\* The Item constructor each alternative of `alt` maps its fragment with, in
\* the order of the tuple handed to `alt`.
AltKinds ==
    <<"DateTime", "Date", "Time", "Relative", "Weekday", "Timestamp", "TimeZone", "Year">>

\* Mutant: a hard failure is passed over like a soft one.
RECURSIVE alt_skip_cut(_, _)
alt_skip_cut(chunk, i) ==
    IF i > Len(AltKinds)
    THEN [tag |-> "backtrack", item |-> None]
    ELSE IF chunk.alts[i].res \in {"soft", "cut"} THEN alt_skip_cut(chunk, i + 1)
    ELSE [tag |-> "ok", item |-> Some(Item(AltKinds[i], Unwrap(chunk.alts[i].val)))]

\* winnow's alt from alternative i on: a soft failure (Backtrack) goes on to the
\* next alternative at the same position, anything else is the result.
RECURSIVE alt(_, _)
alt(chunk, i) ==
    IF i > Len(AltKinds)
    THEN [tag |-> "backtrack", item |-> None]
    ELSE IF chunk.alts[i].res = "soft" THEN alt(chunk, i + 1)
    ELSE IF chunk.alts[i].res = "cut" THEN [tag |-> "cut", item |-> None]
    ELSE [tag |-> "ok", item |-> Some(Item(AltKinds[i], Unwrap(chunk.alts[i].val)))]

\* Mutant: an item is recognized without any input being consumed.
parse_one_stuck(inp, p) ==
    IF p > Len(inp)
    THEN [tag |-> "backtrack", item |-> None, pos |-> p]
    ELSE [tag |-> alt(inp[p], 1).tag, item |-> alt(inp[p], 1).item, pos |-> p]

\* parse_one at position p of the input: the result and the position after it.
\* At the end of the input every fragment parser fails softly.
parse_one(inp, p) ==
    IF p > Len(inp)
    THEN [tag |-> "backtrack", item |-> None, pos |-> p]
    ELSE LET r == alt(inp[p], 1)
         IN  [tag |-> r.tag, item |-> r.item, pos |-> IF r.tag = "ok" THEN p + 1 ELSE p]

\* Mutant: no whitespace is skipped.
space_none(inp, p) == p

\* primitive::space: skips whitespace, never fails.
RECURSIVE space(_, _)
space(inp, p) == IF p <= Len(inp) /\ inp[p].ws THEN space(inp, p + 1) ELSE p

-----------------------------------------------------------------------------
(* parse: the accumulator *)

\* Result<DateTimeBuilder, ErrMode<ContextError>>
OkB(b) == [tag |-> "ok", reason |-> "", builder |-> Some(b)]
Err(reason) == [tag |-> "err", reason |-> reason, builder |-> None]

\* ErrMode::Cut carrying the reason as its expected-description context.
expect_error(reason) == Err(reason)

\* The conflict tests of the match arms.
timestamp_conflict(b) == IsSome(b.timestamp)

\* Mutant: any date in the slot counts as a second year.
year_conflict_any_date(b) == IsSome(b.date)

year_conflict(b) == IsSome(b.date) /\ IsSome(Unwrap(b.date).year)

\* Mutant: the time slot is not looked at.
datetime_conflict_date_only(b) == IsSome(b.date)

datetime_conflict(b) == IsSome(b.date) \/ IsSome(b.time)

\* Mutant: the test of the DateTime arm used for the Date arm.
date_conflict_or_time(b) == IsSome(b.date) \/ IsSome(b.time)

date_conflict(b) == IsSome(b.date)

\* Mutant: only a time with an embedded offset counts as a time.
time_conflict_with_offset(b) == IsSome(b.time) /\ IsSome(Unwrap(b.time).offset)

time_conflict(b) == IsSome(b.time)

time_timezone_conflict(b, t) == IsSome(b.timezone) /\ IsSome(t.offset)

weekday_conflict(b) == IsSome(b.weekday)

\* Mutant: the offset embedded in the time is not looked at.
timezone_conflict_slot_only(b) == IsSome(b.timezone)

timezone_conflict(b) ==
    IsSome(b.timezone) \/ (IsSome(b.time) /\ IsSome(Unwrap(b.time).offset))

\* The match arms of parse's loop: the builder to go on with, or the error
\* parse returns.
timestamp_arm(b, ts) ==
    IF timestamp_conflict(b)
    THEN expect_error("timestamp cannot appear more than once")
    ELSE OkB(set_timestamp(b, ts))

year_arm(b, year) ==
    IF year_conflict(b)
    THEN expect_error("year cannot appear more than once")
    ELSE OkB(set_year(b, year))

datetime_arm(b, dt) ==
    IF datetime_conflict(b)
    THEN expect_error("date or time cannot appear more than once")
    ELSE OkB(set_time(set_date(b, dt.date), dt.time))

date_arm(b, d) ==
    IF date_conflict(b)
    THEN expect_error("date cannot appear more than once")
    ELSE OkB(set_date(b, d))

time_arm(b, t) ==
    IF time_conflict(b)
    THEN expect_error("time cannot appear more than once")
    ELSE IF time_timezone_conflict(b, t)
    THEN expect_error("timezone cannot appear more than once")
    ELSE OkB(set_time(b, t))

weekday_arm(b, w) ==
    IF weekday_conflict(b)
    THEN expect_error("weekday cannot appear more than once")
    ELSE OkB(set_weekday(b, w))

timezone_arm(b, tz) ==
    IF timezone_conflict(b)
    THEN expect_error("timezone cannot appear more than once")
    ELSE OkB(set_timezone(b, tz))

relative_arm(b, rel) == OkB(set_relative(b, rel))

\* `match item`: the arm of the item's kind.
arm(b, item) ==
    CASE item.kind = "Timestamp" -> timestamp_arm(b, item.val)
      [] item.kind = "Year" -> year_arm(b, item.val)
      [] item.kind = "DateTime" -> datetime_arm(b, item.val)
      [] item.kind = "Date" -> date_arm(b, item.val)
      [] item.kind = "Time" -> time_arm(b, item.val)
      [] item.kind = "Weekday" -> weekday_arm(b, item.val)
      [] item.kind = "TimeZone" -> timezone_arm(b, item.val)
      [] item.kind = "Relative" -> relative_arm(b, item.val)

\* Mutant: what is left of the input is not looked at.
finish_unchecked(inp, p, b) == OkB(b)

\* What parse does once the loop is left on a soft failure at position p.
finish(inp, p, b) ==
    IF space(inp, p) <= Len(inp)
    THEN expect_error("unexpected input")
    ELSE OkB(b)

-----------------------------------------------------------------------------
(* DateTimeBuilder::build: the resolver *)

\* NaiveDate::from_ymd_opt(..).and_then(and_hms_nano_opt)?, then
\* DateTime::from_local, which aborts when the UTC datetime is out of range.
new_date(year, month, day, hour, minute, second, nano, offset) ==
    LET d == from_ymd_opt(year, month, day)
        t == and_hms_nano_opt(hour, minute, second, nano)
        dt == [days |-> Unwrap(d), sod |-> Unwrap(t).sod, nano |-> Unwrap(t).nano,
               off |-> offset]
    IN  IF ~IsSome(d) \/ ~IsSome(t) THEN NoneR
        ELSE IF DtInRange(dt) THEN SomeR(dt) ELSE PanicR

\* NaiveDate::from_ymd_opt(year, month + 1, 1)
\*     .unwrap_or(NaiveDate::from_ymd_opt(year + 1, 1, 1).unwrap()).pred_opt().unwrap().day()
\* The argument of unwrap_or is evaluated whatever the month is.
last_day_of_month_aborts(year) == ~IsSome(from_ymd_opt(year + 1, 1, 1))

\* Mutant: every month has thirty days.
last_day_of_month_thirty(year, month) == 30

last_day_of_month(year, month) ==
    LET next == from_ymd_opt(year, month + 1, 1)
        first == IF IsSome(next) THEN Unwrap(next) ELSE Unwrap(from_ymd_opt(year + 1, 1, 1))
    IN  CivilFromDays(first - 1).day

\* Mutant: build starts at the base instant itself.
anchor_at_base(bs) == SomeR(bs)

\* The start of build: midnight of the base's date, in the base's offset.
anchor(bs) == new_date(YearOf(bs), MonthOf(bs), DayOf(bs), 0, 0, 0, 0, bs.off)

\* Mutant: the seconds since the epoch are read as a local date and time.
timestamp_step_local(b, dt) ==
    IF IsSome(b.timestamp)
    THEN SomeR([days |-> Unwrap(b.timestamp) \div 86400, sod |-> Unwrap(b.timestamp) % 86400,
                nano |-> 0, off |-> dt.off])
    ELSE SomeR(dt)

\* if let Some(ts) = self.timestamp
timestamp_step(b, dt) ==
    IF IsSome(b.timestamp)
    THEN SomeR(from_utc(Unwrap(b.timestamp) \div 86400, Unwrap(b.timestamp) % 86400, 0, dt.off))
    ELSE SomeR(dt)

\* Mutant: the date starts at midnight.
date_step_midnight(b, dt) ==
    IF IsSome(b.date)
    THEN new_date(IF IsSome(Unwrap(b.date).year) THEN Unwrap(Unwrap(b.date).year) ELSE YearOf(dt),
                  Unwrap(b.date).month, Unwrap(b.date).day, 0, 0, 0, 0, dt.off)
    ELSE SomeR(dt)

\* Mutant: the year of the date item is not used.
date_step_keep_year(b, dt) ==
    IF IsSome(b.date)
    THEN new_date(YearOf(dt), Unwrap(b.date).month, Unwrap(b.date).day,
                  HourOf(dt), MinuteOf(dt), SecondOf(dt), dt.nano, dt.off)
    ELSE SomeR(dt)

\* if let Some(date::Date { year, month, day }) = self.date
date_step(b, dt) ==
    IF IsSome(b.date)
    THEN LET d == Unwrap(b.date)
         IN  new_date(IF IsSome(d.year) THEN Unwrap(d.year) ELSE YearOf(dt),
                      d.month, d.day, HourOf(dt), MinuteOf(dt), SecondOf(dt), dt.nano, dt.off)
    ELSE SomeR(dt)

\* if let Some(time::Time { hour, minute, second, ref offset }) = self.time
time_step(b, dt) ==
    IF IsSome(b.time)
    THEN LET t == Unwrap(b.time)
             offset == IF IsSome(t.offset) /\ IsSome(try_from_offset(Unwrap(t.offset)))
                       THEN Unwrap(try_from_offset(Unwrap(t.offset)))
                       ELSE dt.off
         IN  new_date(YearOf(dt), MonthOf(dt), DayOf(dt), t.hour, t.minute,
                      t.second \div 1000, (t.second % 1000) * 1000000, offset)
    ELSE SomeR(dt)

\* Mutant: the time of day is left as it is.
weekday_zero_never(b, dt) == SomeR(dt)

\* The time of day set to zero when no time item was given.
weekday_zero(b, dt) ==
    IF ~IsSome(b.time)
    THEN Then(Then(Then(with_hour(dt, 0),
                        LAMBDA h : with_minute(h, 0)),
                   LAMBDA m : with_second(m, 0)),
              LAMBDA s : with_nanosecond(s, 0))
    ELSE SomeR(dt)

\* Mutant: the week offset is used as given.
weekday_offset_kept(w, dt) == w.offset

\* Mutant: the week offset is decremented whatever its sign.
weekday_offset_any_sign(w, dt) == IF WeekdayOf(dt) # w.day THEN w.offset - 1 ELSE w.offset

\* The week offset after `if dt.weekday() != day && offset > 0 { offset -= 1 }`.
weekday_offset(w, dt) ==
    IF WeekdayOf(dt) # w.day /\ w.offset > 0 THEN w.offset - 1 ELSE w.offset

\* `a + b` on i32 leaves the i32 range.
i32_add_overflows(a, b) ==
    (b > 0 /\ a > 2147483647 - b) \/ (b < 0 /\ a < (-2147483647 - 1) - b)

\* `a + b` on i32, modulo 2^32 when it overflows.
i32_wrapping_add(a, b) ==
    IF ~i32_add_overflows(a, b) THEN a + b
    ELSE IF b > 0 THEN (a - 2147483647 - 1) + (b - 2147483647 - 1)
    ELSE (a + 2147483647 + 1) + (b + 2147483647 + 1)

\* i32::checked_mul(7)
checked_mul_7(x) == IF x > 306783378 \/ x < -306783378 THEN None ELSE Some(x * 7)

\* Mutant: the remainder keeps the sign of the difference of the days.
weekday_delta_rem(w, dt) ==
    LET wk == checked_mul_7(weekday_offset(w, dt))
        d == w.day - WeekdayOf(dt)
    IN  IF IsSome(wk) THEN Some((IF d >= 0 THEN d ELSE -((-d) % 7)) + Unwrap(wk)) ELSE None

\* The signed number of days the weekday item moves the date by: the sum is
\* an i32 sum.
weekday_delta(w, dt) ==
    LET wk == checked_mul_7(weekday_offset(w, dt))
    IN  IF IsSome(wk) THEN Some(i32_wrapping_add((w.day - WeekdayOf(dt)) % 7, Unwrap(wk)))
        ELSE None

\* The sum of weekday_delta leaves the i32 range.
weekday_delta_overflows(w, dt) ==
    /\ IsSome(checked_mul_7(weekday_offset(w, dt)))
    /\ i32_add_overflows((w.day - WeekdayOf(dt)) % 7, Unwrap(checked_mul_7(weekday_offset(w, dt))))

\* checked_sub_days(-delta) or checked_add_days(delta), by the sign of delta.
weekday_shift(w, dt) ==
    LET delta == weekday_delta(w, dt)
    IN  IF IsSome(delta)
        THEN Overflowed(checked_add_days(dt, Unwrap(delta)), weekday_delta_overflows(w, dt))
        ELSE NoneR

\* if let Some(weekday::Weekday { offset, day }) = self.weekday
weekday_step(b, dt) ==
    IF IsSome(b.weekday)
    THEN Then(weekday_zero(b, dt), LAMBDA z : weekday_shift(Unwrap(b.weekday), z))
    ELSE SomeR(dt)

\* Mutant: the working instant is set back to the base before every unit,
\* whatever items there are.
no_anchor_item_always(b) == TRUE

\* Mutant: the working instant is never set back to the base.
no_anchor_item_never(b) == FALSE

\* The test at the head of the body of `for rel in self.relative`.
no_anchor_item(b) ==
    ~IsSome(b.timestamp) /\ ~IsSome(b.date) /\ ~IsSome(b.time) /\ ~IsSome(b.weekday)

\* `x as i64` of an f64 held in milliseconds: truncation toward zero.
trunc_seconds(ms) == IF ms >= 0 THEN ms \div 1000 ELSE -((-ms) \div 1000)

\* `days * x as u32` leaves the u32 range: x > (2^32 - 1) / days.
u32_mul_overflows(days, x) ==
    x > (CASE days = 28 -> 153391689 [] days = 29 -> 148102320
           [] days = 30 -> 143165576 [] OTHER -> 138547332)

\* `days * x as u32` modulo 2^32, computed on the halves of x; None stands for
\* a product of 2^31 or more, which is further than any date is from another.
u32_wrapping_mul(days, x) ==
    LET lo == days * (x % 65536)
        hi == (days * (x \div 65536) + lo \div 65536) % 65536
    IN  IF hi >= 32768 THEN None ELSE Some(hi * 65536 + (lo % 65536))

\* NaiveDate::checked_add_days / checked_sub_days of the date of dt by n days
\* (None stands for a count no date is within), then `dt +=` the difference.
months_shift(dt, n, sign) ==
    IF ~IsSome(n) THEN NoneR
    ELSE IF Unwrap(n) > DateSpan THEN NoneR
    ELSE IF ~DaysInRange(dt.days + sign * Unwrap(n)) THEN NoneR
    ELSE add_assign(dt, sign * Unwrap(n), 0)

\* Relative::Months(x): the days of the current month times |x|, added to or
\* taken from the date; the DateTime then moves by the difference of the dates.
months_step(dt, x) ==
    LET days == last_day_of_month(YearOf(dt), MonthOf(dt))
        mag == IF x >= 0 THEN x ELSE -x
    IN  IF last_day_of_month_aborts(YearOf(dt)) THEN PanicR
        ELSE Overflowed(months_shift(dt, u32_wrapping_mul(days, mag), IF x >= 0 THEN 1 ELSE -1),
                        u32_mul_overflows(days, mag))

\* The match on one relative unit.
apply_relative(dt, rel) ==
    CASE rel.unit = "Years" ->
            Overflowed(with_year(dt, i32_wrapping_add(YearOf(dt), rel.x)),
                       i32_add_overflows(YearOf(dt), rel.x))
      [] rel.unit = "Months" -> months_step(dt, rel.x)
      [] rel.unit = "Days" -> add_assign(dt, rel.x, 0)
      [] rel.unit = "Hours" -> add_assign(dt, rel.x \div 24, (rel.x % 24) * 3600)
      [] rel.unit = "Minutes" -> add_assign(dt, rel.x \div 1440, (rel.x % 1440) * 60)
      [] rel.unit = "Seconds" ->
            add_assign(dt, trunc_seconds(rel.x) \div 86400, trunc_seconds(rel.x) % 86400)

\* for rel in self.relative, from the i-th unit on.
RECURSIVE relative_loop(_, _, _, _)
relative_loop(b, bs, dt, i) ==
    IF i > Len(b.relative) THEN SomeR(dt)
    ELSE LET start == IF no_anchor_item(b) THEN bs ELSE dt
             r == apply_relative(start, b.relative[i])
         IN  Then(r, LAMBDA dt2 : relative_loop(b, bs, dt2, i + 1))

\* with_timezone_restore: the instant is read in the new offset, then its day,
\* month, year, hour, minute, second and nanosecond are set back one by one.
with_timezone_restore(offset, at) ==
    LET o == try_from_offset(offset)
    IN  IF ~IsSome(o) THEN NoneR
        ELSE Then(Then(Then(Then(Then(Then(
                 with_day(with_timezone(at, Unwrap(o)), DayOf(at)),
                 LAMBDA x : with_month(x, MonthOf(at))),
                 LAMBDA x : with_year(x, YearOf(at))),
                 LAMBDA x : with_hour(x, HourOf(at))),
                 LAMBDA x : with_minute(x, MinuteOf(at))),
                 LAMBDA x : with_second(x, SecondOf(at))),
                 LAMBDA x : with_nanosecond(x, at.nano))

\* if let Some(offset) = self.timezone
timezone_step(b, dt) ==
    IF IsSome(b.timezone) THEN with_timezone_restore(Unwrap(b.timezone), dt) ELSE SomeR(dt)

build(b, bs) ==
    Then(Then(Then(Then(Then(Then(
        anchor(bs),
        LAMBDA dt : timestamp_step(b, dt)),
        LAMBDA dt : date_step(b, dt)),
        LAMBDA dt : time_step(b, dt)),
        LAMBDA dt : weekday_step(b, dt)),
        LAMBDA dt : relative_loop(b, bs, dt, 1)),
        LAMBDA dt : timezone_step(b, dt))

\* Option::ok_or(ParseDateTimeError::InvalidInput); an abort inside build
\* leaves no value.
ok_or_invalid(r) ==
    [tag |-> IF r.tag = "some" THEN "ok"
             ELSE IF r.tag = "none" THEN "InvalidInput" ELSE "panic",
     dt |-> r.dt]

\* What the caller of build gets: its value, or, where an integer operation
\* overflowed, also the abort of a build with overflow checks.
outcomes(r) ==
    IF r.ovf THEN {ok_or_invalid(PanicR), ok_or_invalid(r)} ELSE {ok_or_invalid(r)}

\* builder.set_base(base).build().ok_or(ParseDateTimeError::InvalidInput), in
\* a build where integer arithmetic wraps.
at_date(b, bs) == ok_or_invalid(build(b, bs))

\* builder.build().ok_or(ParseDateTimeError::InvalidInput), where build takes
\* chrono::Local::now() as the base.
at_local(b, now) == ok_or_invalid(build(b, now))

-----------------------------------------------------------------------------
(* The inputs of the model *)

\* The longest input, in chunks.
MaxChunks == 3

\* The chunk only alternative i recognizes, as the fragment v.
Only(i, v) == [ws |-> FALSE, alts |-> [k \in 1..Len(AltKinds) |-> IF k = i THEN Ok(v) ELSE Soft]]

\* Text no alternative recognizes, whitespace, and text on which the time
\* parser fails hard.
Junk == [ws |-> FALSE, alts |-> [k \in 1..Len(AltKinds) |-> Soft]]
WS == [ws |-> TRUE, alts |-> [k \in 1..Len(AltKinds) |-> Soft]]
Malformed == [ws |-> FALSE, alts |-> [k \in 1..Len(AltKinds) |-> IF k = 3 THEN Cut ELSE Soft]]

DateTimeVals ==
    {CombinedDateTime(Date(19, 5, Some(2025)), Time(6, 14, 49000, None)),
     CombinedDateTime(Date(29, 2, Some(2024)), Time(23, 30, 0, Some(3600)))}
DateVals == {Date(1, 1, Some(2005)), Date(18, 7, None)}
TimeVals == {Time(6, 14, 49567, None), Time(10, 0, 0, Some(-18000))}
RelativeVals == {Relative("Days", -2), Relative("Months", 1)}
WeekdayVals == {Weekday(1, 3)}
TimestampVals == {1690466034}
TimeZoneVals == {3600}
YearVals == {2024}

Chunks ==
    {Only(1, v) : v \in DateTimeVals} \cup {Only(2, v) : v \in DateVals}
    \cup {Only(3, v) : v \in TimeVals} \cup {Only(4, v) : v \in RelativeVals}
    \cup {Only(5, v) : v \in WeekdayVals} \cup {Only(6, v) : v \in TimestampVals}
    \cup {Only(7, v) : v \in TimeZoneVals} \cup {Only(8, v) : v \in YearVals}
    \cup {Junk, WS, Malformed}

\* The fragment parsers skip leading whitespace themselves, so a chunk of
\* whitespace is followed by the end of the input or by unrecognized text.
WellFormed(inp) ==
    \A i \in 1..Len(inp) : inp[i] = WS => (i = Len(inp) \/ inp[i + 1] = Junk)

Inputs == {inp \in UNION {[1..n -> Chunks] : n \in 0..MaxChunks} : WellFormed(inp)}

\* A DateTime<FixedOffset> from its local fields.
LocalDt(y, m, d, h, mi, s, off) ==
    [days |-> DaysFromCivil(y, m, d), sod |-> h * 3600 + mi * 60 + s, nano |-> 0, off |-> off]

\* The base instants: 2025-01-01 is a Wednesday.
Bases ==
    {LocalDt(2025, 1, 1, 0, 0, 0, 0),
     LocalDt(2024, 2, 29, 13, 53, 54, 0),
     LocalDt(2023, 7, 31, 22, 10, 5, -10800),
     LocalDt(2025, 12, 31, 23, 59, 59, 19800)}

-----------------------------------------------------------------------------
(* The state machine *)

Init ==
    /\ input \in Inputs
    /\ pos = 1
    /\ builder = new
    /\ pc = "loop"
    /\ ret = None
    /\ base = None
    /\ out = None

\* parse_one on the rest of the input, inside the loop.
One == parse_one(input, pos)
Recognized(kind) == pc = "loop" /\ One.tag = "ok" /\ Unwrap(One.item).kind = kind
Fragment == Unwrap(One.item).val

\* The end of a match arm with result a: the loop goes on with the new builder,
\* or parse returns the error.
Store(a) ==
    /\ pos' = One.pos
    /\ IF a.tag = "ok"
       THEN builder' = Unwrap(a.builder) /\ UNCHANGED <<pc, ret>>
       ELSE ret' = Some(a) /\ pc' = "parsed" /\ UNCHANGED builder

\* One iteration of parse's loop for each kind of item parse_one recognizes.
OnTimestamp ==
    /\ Recognized("Timestamp")
    /\ Store(timestamp_arm(builder, Fragment))
    /\ UNCHANGED <<input, base, out>>

OnYear ==
    /\ Recognized("Year")
    /\ Store(year_arm(builder, Fragment))
    /\ UNCHANGED <<input, base, out>>

OnDateTime ==
    /\ Recognized("DateTime")
    /\ Store(datetime_arm(builder, Fragment))
    /\ UNCHANGED <<input, base, out>>

OnDate ==
    /\ Recognized("Date")
    /\ Store(date_arm(builder, Fragment))
    /\ UNCHANGED <<input, base, out>>

OnTime ==
    /\ Recognized("Time")
    /\ Store(time_arm(builder, Fragment))
    /\ UNCHANGED <<input, base, out>>

OnWeekday ==
    /\ Recognized("Weekday")
    /\ Store(weekday_arm(builder, Fragment))
    /\ UNCHANGED <<input, base, out>>

OnTimeZone ==
    /\ Recognized("TimeZone")
    /\ Store(timezone_arm(builder, Fragment))
    /\ UNCHANGED <<input, base, out>>

OnRelative ==
    /\ Recognized("Relative")
    /\ Store(relative_arm(builder, Fragment))
    /\ UNCHANGED <<input, base, out>>

\* Err(ErrMode::Backtrack(_)) => break, then the rest of parse.
OnBacktrack ==
    /\ pc = "loop"
    /\ One.tag = "backtrack"
    /\ pos' = space(input, pos)
    /\ ret' = Some(finish(input, pos, builder))
    /\ pc' = "parsed"
    /\ UNCHANGED <<input, builder, base, out>>

\* Err(e) => return Err(e): a hard failure of a fragment parser.
OnCut ==
    /\ pc = "loop"
    /\ One.tag = "cut"
    /\ ret' = Some(Err("fragment parser error"))
    /\ pc' = "parsed"
    /\ UNCHANGED <<input, pos, builder, base, out>>

\* at_date(builder, base) on the builder parse returned.
AtDate ==
    /\ pc = "parsed"
    /\ Unwrap(ret).tag = "ok"
    /\ \E bs \in Bases :
          /\ base' = Some(bs)
          /\ \E o \in outcomes(build(Unwrap(Unwrap(ret).builder), bs)) : out' = Some(o)
    /\ pc' = "resolved"
    /\ UNCHANGED <<input, pos, builder, ret>>

\* at_local(builder): build reads the local time as its base.
AtLocal ==
    /\ pc = "parsed"
    /\ Unwrap(ret).tag = "ok"
    /\ \E now \in Bases :
          /\ base' = Some(now)
          /\ \E o \in outcomes(build(Unwrap(Unwrap(ret).builder), now)) : out' = Some(o)
    /\ pc' = "resolved"
    /\ UNCHANGED <<input, pos, builder, ret>>

Next ==
    \/ OnTimestamp \/ OnYear \/ OnDateTime \/ OnDate \/ OnTime \/ OnWeekday
    \/ OnTimeZone \/ OnRelative \/ OnBacktrack \/ OnCut \/ AtDate \/ AtLocal

Spec == Init /\ [][Next]_vars

-----------------------------------------------------------------------------
(* Reading the state *)

\* The item parse_one recognizes in chunk i of the input.
ItemAt(i) == Unwrap(alt(input[i], 1).item)
IsItem(i) == alt(input[i], 1).tag = "ok"

\* The items of the input, when every chunk of it is an item or trailing
\* whitespace.
AllItems == [i \in {k \in 1..Len(input) : IsItem(k)} |-> ItemAt(i)]

\* The items the loop has stored so far (inside the loop).
Stored == [i \in 1..(pos - 1) |-> ItemAt(i)]

\* The item whose arm made parse return an error.
Rejected == ItemAt(pos - 1)

Returned == pc # "loop"
ReturnedOk == pc # "loop" /\ Unwrap(ret).tag = "ok"
ReturnedErr(reason) == pc # "loop" /\ ret = Some(Err(reason))

\* What the step does with the item parse_one recognizes.
Rejects(reason) == pc' = "parsed" /\ ret' = Some(Err(reason))
Accepts == pc' = "loop" /\ ret' = None

\* The values of the items of one kind in a sequence of items.
OfKind(items, kind) == SelectSeq(items, LAMBDA it : it.kind = kind)

\* parse on a sequence of items followed by the end of the input.
RECURSIVE Accumulate(_, _, _)
Accumulate(b, items, i) ==
    IF i > Len(items) THEN OkB(b)
    ELSE LET a == arm(b, items[i])
         IN  IF a.tag = "ok" THEN Accumulate(Unwrap(a.builder), items, i + 1) ELSE a

-----------------------------------------------------------------------------
(* C1 *)

\* C1: for every sequence of items parse accepts, every reordering of the
\* same items is accepted too, and resolves against the same base to the same
\* timestamp.
C1_OrderImmaterial ==
    pc = "resolved" =>
        \A p \in Permutations(DOMAIN AllItems) :
            LET r == Accumulate(new, [i \in DOMAIN AllItems |-> AllItems[p[i]]], 1)
            IN  /\ r.tag = "ok"
                /\ at_date(Unwrap(r.builder), Unwrap(base)) = Unwrap(out)

-----------------------------------------------------------------------------
(* C2 .. C6: the conflict rules *)

\* C2: a combined DateTime item recognized while the date slot or the time
\* slot is set makes parse return the error "date or time cannot appear more
\* than once", and no builder.
C2_DateTimeRejected ==
    [][(Recognized("DateTime") /\ (IsSome(builder.date) \/ IsSome(builder.time)))
        => Rejects("date or time cannot appear more than once")]_vars

\* The time slot alone is set when the DateTime item is rejected.
C2_Witness ==
    /\ ReturnedErr("date or time cannot appear more than once")
    /\ Rejected.kind = "DateTime"
    /\ IsSome(builder.time) /\ ~IsSome(builder.date)

\* C3: a Date item recognized while the date slot is set makes parse return
\* the error "date cannot appear more than once"; recognized while the date
\* slot is empty it is stored.
C3_DateRejectedOrStored ==
    [][Recognized("Date")
        => IF IsSome(builder.date)
           THEN Rejects("date cannot appear more than once")
           ELSE Accepts /\ builder'.date = Some(Fragment)]_vars

\* A Date item is rejected after a bare Year created the date.
C3_Witness ==
    /\ ReturnedErr("date cannot appear more than once")
    /\ Rejected.kind = "Date"
    /\ builder.date = Some(Date(1, 1, Some(2024)))

\* C4: a Year item recognized while the date slot holds an explicit year makes
\* parse return the error "year cannot appear more than once"; with an empty
\* date slot or a date without a year it is accepted.
C4_YearRejectedOrStored ==
    [][Recognized("Year")
        => IF IsSome(builder.date) /\ IsSome(Unwrap(builder.date).year)
           THEN Rejects("year cannot appear more than once")
           ELSE /\ Accepts
                /\ IsSome(builder'.date)
                /\ Unwrap(builder'.date).year = Some(Fragment)]_vars

\* A Year item is rejected after a date with a year, and another one was
\* accepted after a date without a year.
C4_Witness ==
    /\ ReturnedErr("year cannot appear more than once")
    /\ Rejected.kind = "Year"
    /\ builder.date = Some(Date(18, 7, Some(2024)))

\* C5: a TimeZone item is rejected with "timezone cannot appear more than
\* once" when the timezone slot is set or the time slot holds a time with an
\* embedded offset; a Time item with an embedded offset, recognized while the
\* time slot is empty, is rejected with the same reason when the timezone slot
\* is set.
C5_TimezoneTwice ==
    [][/\ (Recognized("TimeZone")
             /\ (IsSome(builder.timezone)
                 \/ (IsSome(builder.time) /\ IsSome(Unwrap(builder.time).offset))))
          => Rejects("timezone cannot appear more than once")
       /\ (Recognized("Time") /\ ~IsSome(builder.time)
             /\ IsSome(Fragment.offset) /\ IsSome(builder.timezone))
          => Rejects("timezone cannot appear more than once")]_vars

\* A Time item with an embedded offset is rejected after a TimeZone item.
C5_Witness ==
    /\ ReturnedErr("timezone cannot appear more than once")
    /\ Rejected.kind = "Time"
    /\ IsSome(Rejected.val.offset)
    /\ IsSome(builder.timezone) /\ ~IsSome(builder.time)

\* C6: a Time item recognized while the time slot is set makes parse return
\* the error "time cannot appear more than once", and no builder.
C6_TimeRejected ==
    [][(Recognized("Time") /\ IsSome(builder.time))
        => Rejects("time cannot appear more than once")]_vars

\* A Time item is rejected after a combined DateTime item set the time.
C6_Witness ==
    /\ ReturnedErr("time cannot appear more than once")
    /\ Rejected.kind = "Time"
    /\ IsSome(builder.time) /\ IsSome(builder.date)
    /\ \E i \in 1..(pos - 2) : ItemAt(i).kind = "DateTime"

-----------------------------------------------------------------------------
(* C7: the slots *)

\* The items stored so far, inside the loop and once parse has returned a
\* builder, and the builder they are stored in.
Accepted == IF pc = "loop" THEN Stored ELSE AllItems
Current == IF pc = "loop" THEN builder ELSE Unwrap(Unwrap(ret).builder)

Count(items, kinds) == Len(SelectSeq(items, LAMBDA it : it.kind \in kinds))
Values(items, kind) == [i \in 1..Len(OfKind(items, kind)) |-> OfKind(items, kind)[i].val]

\* A slot is set by exactly the one item of its kinds, and is empty without one.
FilledBy(slot, items, kinds) ==
    /\ Count(items, kinds) <= 1
    /\ IsSome(slot) <=> Count(items, kinds) = 1

C7_State ==
    (pc = "loop" \/ ReturnedOk) =>
        /\ FilledBy(Current.timestamp, Accepted, {"Timestamp"})
        /\ FilledBy(Current.time, Accepted, {"Time", "DateTime"})
        /\ FilledBy(Current.weekday, Accepted, {"Weekday"})
        /\ FilledBy(Current.timezone, Accepted, {"TimeZone"})
        /\ Count(Accepted, {"Date", "DateTime"}) <= 1
        /\ Count(Accepted, {"Year"}) <= 1
        /\ IsSome(Current.date) <=> Count(Accepted, {"Date", "DateTime", "Year"}) >= 1
        /\ Current.timestamp = Values(Accepted, "Timestamp")
        /\ Current.weekday = Values(Accepted, "Weekday")
        /\ Current.timezone = Values(Accepted, "TimeZone")
        /\ Current.relative = Values(Accepted, "Relative")

C7_Step ==
    /\ IsSome(builder.timestamp) => builder'.timestamp = builder.timestamp
    /\ IsSome(builder.time) => builder'.time = builder.time
    /\ IsSome(builder.weekday) => builder'.weekday = builder.weekday
    /\ IsSome(builder.timezone) => builder'.timezone = builder.timezone
    /\ IsSome(builder.date) =>
          \/ builder'.date = builder.date
          \/ /\ Recognized("Year")
             /\ ~IsSome(Unwrap(builder.date).year)
             /\ builder'.date = Some([Unwrap(builder.date) EXCEPT !.year = Some(Fragment)])
    /\ (Recognized("Timestamp") /\ IsSome(builder.timestamp))
          => Rejects("timestamp cannot appear more than once")
    /\ (Recognized("Weekday") /\ IsSome(builder.weekday))
          => Rejects("weekday cannot appear more than once")
    /\ Recognized("Relative")
          => Accepts /\ builder'.relative = Append(builder.relative, Fragment)

\* C7: each of the timestamp, date, time, weekday and timezone slots is filled
\* by at most one item of the input (a Year item may add its year to a date
\* that has none); a second Timestamp or Weekday item is rejected with its
\* reason; a filled slot is never overwritten or cleared; the relative list is
\* the Relative items of the input in input order, none being rejected.
C7_SlotsFilledOnce == []C7_State /\ [][C7_Step]_vars

\* Two different relative units were stored around a date.
C7_Witness ==
    /\ ReturnedOk
    /\ Current.relative = <<Relative("Months", 1), Relative("Days", -2)>>
    /\ AllItems[2].kind = "Date"

-----------------------------------------------------------------------------
(* C8: the end of the item stream *)

\* The first chunk parse_one does not recognize an item in.
FirstStop ==
    IF \A i \in 1..Len(input) : IsItem(i) THEN Len(input) + 1
    ELSE CHOOSE i \in 1..Len(input) : ~IsItem(i) /\ \A k \in 1..(i - 1) : IsItem(k)

OnlyWhitespaceFrom(i) == \A k \in i..Len(input) : input[k].ws

C8_State == ReturnedOk => OnlyWhitespaceFrom(FirstStop)

C8_Step ==
    (pc = "loop" /\ One.tag = "backtrack" /\ ~OnlyWhitespaceFrom(pos))
        => Rejects("unexpected input")

\* C8: parse returns a builder only if what is left of the input when
\* parse_one fails softly is empty or whitespace; when anything else is left
\* it returns the error "unexpected input", whatever was stored before.
C8_UnexpectedInput == []C8_State /\ [][C8_Step]_vars

\* Unrecognized text after whitespace, two items having been stored.
C8_Witness ==
    /\ ReturnedErr("unexpected input")
    /\ pos = 3
    /\ IsSome(builder.date) /\ IsSome(builder.weekday)

-----------------------------------------------------------------------------
(* The resolver alone: at_date and at_local on the builders parse can return *)

\* The longest relative list.
MaxRelative == 2

BuildTimestamps == {None, Some(1690466034)}
BuildDates ==
    {None, Some(Date(1, 1, Some(2005))), Some(Date(18, 7, None))}
BuildTimes == {None, Some(Time(6, 14, 49567, None)), Some(Time(23, 30, 0, Some(3600)))}
BuildWeekdays == {None, Some(Weekday(-1, 2))}
BuildTimezones == {None, Some(-18000)}
BuildRelatives ==
    {Relative("Days", -2), Relative("Days", 1), Relative("Months", 1),
     Relative("Years", 1), Relative("Hours", 5), Relative("Minutes", -90),
     Relative("Seconds", 1500)}

\* parse lets a time with an embedded offset stand next to a timezone only when
\* a combined DateTime item brought the time, and its date, after the timezone.
Parseable(b) ==
    (IsSome(b.timezone) /\ IsSome(b.time) /\ IsSome(Unwrap(b.time).offset))
        => (IsSome(b.date) /\ IsSome(Unwrap(b.date).year))

\* The builders parse returns for the items of their slots.
Builders ==
    {b \in
        {[timestamp |-> ts, date |-> d, time |-> t, weekday |-> w, timezone |-> tz,
          relative |-> r] :
            ts \in BuildTimestamps, d \in BuildDates, t \in BuildTimes, w \in BuildWeekdays,
            tz \in BuildTimezones,
            r \in UNION {[1..n -> BuildRelatives] : n \in 0..MaxRelative}} :
        Parseable(b)}

InitBuild ==
    /\ input = <<>>
    /\ pos = 1
    /\ builder \in Builders
    /\ pc = "parsed"
    /\ ret = Some(OkB(builder))
    /\ base = None
    /\ out = None

NextBuild == AtDate \/ AtLocal

SpecBuild == InitBuild /\ [][NextBuild]_vars

-----------------------------------------------------------------------------
(* C9, C10: relative units with and without an anchor item *)

Resolved == pc = "resolved"
Given == Unwrap(Unwrap(ret).builder)
Result == Unwrap(out)
OkAt(dt) == [tag |-> "ok", dt |-> dt]

\* The instant s seconds and d days after dt, in the offset of dt.
Later(dt, d, s) ==
    [days |-> dt.days + d + (dt.sod + s) \div 86400, sod |-> (dt.sod + s) % 86400,
     nano |-> dt.nano, off |-> dt.off]

\* What section 4.3 says a relative unit does to an instant.
Shifted(dt, rel) ==
    CASE rel.unit = "Days" -> OkAt(Later(dt, rel.x, 0))
      [] rel.unit = "Hours" -> OkAt(Later(dt, 0, rel.x * 3600))
      [] rel.unit = "Minutes" -> OkAt(Later(dt, 0, rel.x * 60))
      [] rel.unit = "Seconds" ->
            OkAt(Later(dt, 0, IF rel.x >= 0 THEN rel.x \div 1000 ELSE -((-rel.x) \div 1000)))
      [] rel.unit = "Months" ->
            OkAt(Later(dt, MonthLength(YearOf(dt), MonthOf(dt)) * rel.x, 0))
      [] rel.unit = "Years" ->
            IF DayOf(dt) <= MonthLength(YearOf(dt) + rel.x, MonthOf(dt))
            THEN OkAt([dt EXCEPT !.days = DaysFromCivil(YearOf(dt) + rel.x, MonthOf(dt), DayOf(dt))])
            ELSE [tag |-> "InvalidInput", dt |-> ZeroDt]

OneRelativeNoAnchor ==
    /\ Resolved
    /\ Len(Given.relative) = 1
    /\ ~IsSome(Given.timestamp) /\ ~IsSome(Given.date)
    /\ ~IsSome(Given.time) /\ ~IsSome(Given.weekday)

\* The same outcome and, when there is an instant, the same instant (the
\* equality of DateTime compares instants, not offsets).
SameResult(r, e) == r.tag = e.tag /\ (r.tag = "ok" => SameInstant(r.dt, e.dt))

\* C9, as claimed: with exactly one relative unit and no timestamp, date, time
\* or weekday item, the result is the exact base instant shifted by the unit.
\* A timezone item relabels the shifted instant, which moves it.
C9_AsClaimed ==
    OneRelativeNoAnchor => SameResult(Result, Shifted(Unwrap(base), Given.relative[1]))

\* C9, amended: with exactly one relative unit and no timestamp, date, time,
\* weekday or timezone item, the result is the exact base instant (its hour,
\* minute and second included) shifted by the unit.
C9_PureRelative ==
    (OneRelativeNoAnchor /\ ~IsSome(Given.timezone))
        => Result = Shifted(Unwrap(base), Given.relative[1])

\* "2 days ago" against a base in the afternoon: two days earlier, same time.
C9_Witness ==
    /\ OneRelativeNoAnchor /\ ~IsSome(Given.timezone)
    /\ Given.relative = <<Relative("Days", -2)>>
    /\ base = Some(LocalDt(2024, 2, 29, 13, 53, 54, 0))
    /\ Result = OkAt(LocalDt(2024, 2, 27, 13, 53, 54, 0))

\* C10: with a Date item of explicit year Y-M-D, one relative unit Days(n) and
\* no other item, the result is 00:00:00 on Y-M-D plus n days in the offset of
\* the base, whatever the time of day of the base.
C10_DatePlusDays ==
    (/\ Resolved
     /\ IsSome(Given.date) /\ IsSome(Unwrap(Given.date).year)
     /\ Unwrap(Given.date).month \in 1..12
     /\ Unwrap(Given.date).day \in
            1..MonthLength(Unwrap(Unwrap(Given.date).year), Unwrap(Given.date).month)
     /\ Len(Given.relative) = 1 /\ Given.relative[1].unit = "Days"
     /\ ~IsSome(Given.timestamp) /\ ~IsSome(Given.time)
     /\ ~IsSome(Given.weekday) /\ ~IsSome(Given.timezone))
        => Result =
              OkAt([days |-> DaysFromCivil(Unwrap(Unwrap(Given.date).year),
                                           Unwrap(Given.date).month, Unwrap(Given.date).day)
                             + Given.relative[1].x,
                    sod |-> 0, nano |-> 0, off |-> Unwrap(base).off])

\* 2005-01-01 and one day, against a base late in the evening at +05:30.
C10_Witness ==
    /\ Resolved
    /\ Given = [new EXCEPT !.date = Some(Date(1, 1, Some(2005))),
                           !.relative = <<Relative("Days", 1)>>]
    /\ base = Some(LocalDt(2025, 12, 31, 23, 59, 59, 19800))
    /\ Result = OkAt(LocalDt(2005, 1, 2, 0, 0, 0, 19800))

-----------------------------------------------------------------------------
(* C11: several relative units *)

\* The units of a list applied one after the other, each to the instant the
\* one before it gave, as section 4.3 describes them.
RECURSIVE ShiftedAll(_, _, _)
ShiftedAll(dt, rels, i) ==
    IF i > Len(rels) THEN OkAt(dt)
    ELSE IF Shifted(dt, rels[i]).tag = "ok" THEN ShiftedAll(Shifted(dt, rels[i]).dt, rels, i + 1)
    ELSE Shifted(dt, rels[i])

\* The timezone item of the builder, if any, applied to a result.
Relabelled(r) == IF r.tag = "ok" THEN ok_or_invalid(timezone_step(Given, r.dt)) ELSE r

\* The instant the relative units start from when there is an anchor item.
Working == at_date([Given EXCEPT !.relative = <<>>, !.timezone = None], Unwrap(base))

LastUnit == Given.relative[Len(Given.relative)]
EarlierUnits == {Given.relative[i] : i \in 1..(Len(Given.relative) - 1)}

\* A timestamp, date, time or weekday item was given.
Anchored ==
    IsSome(Given.timestamp) \/ IsSome(Given.date) \/ IsSome(Given.time) \/ IsSome(Given.weekday)

SeveralNoAnchor == Resolved /\ Len(Given.relative) >= 2 /\ ~Anchored
SeveralAnchored == Resolved /\ Len(Given.relative) >= 2 /\ Anchored

\* C11, as claimed: with no timestamp, date, time or weekday item and two or
\* more relative units, the result is the base shifted by the last unit alone,
\* the earlier units having no effect.
C11_AsClaimed ==
    SeveralNoAnchor => Result = Relabelled(Shifted(Unwrap(base), LastUnit))

\* C11, amended: with no timestamp, date, time or weekday item and two or more
\* relative units, every unit is applied to the base instant: the result is
\* the base shifted by the last unit alone when every earlier unit can be
\* applied to the base, and the InvalidInput failure when one of them cannot;
\* with an anchor item the units compound in parse order from the working
\* instant.
C11_ResetBeforeEveryUnit ==
    /\ SeveralNoAnchor =>
          IF \A u \in EarlierUnits : Shifted(Unwrap(base), u).tag = "ok"
          THEN Result = Relabelled(Shifted(Unwrap(base), LastUnit))
          ELSE Result.tag = "InvalidInput"
    /\ (SeveralAnchored /\ Working.tag = "ok") =>
          Result = Relabelled(ShiftedAll(Working.dt, Given.relative, 1))

\* "2 days ago 1 day" against 2024-02-29 13:53:54: the day after the base.
C11_Witness ==
    /\ SeveralNoAnchor /\ ~IsSome(Given.timezone)
    /\ Given.relative = <<Relative("Days", -2), Relative("Days", 1)>>
    /\ base = Some(LocalDt(2024, 2, 29, 13, 53, 54, 0))
    /\ Result = OkAt(LocalDt(2024, 3, 1, 13, 53, 54, 0))

-----------------------------------------------------------------------------
(* The resolver on weekday, timezone and month items *)

\* The largest week offset of a weekday item.
MaxWeeks == 2

\* A week across the end of a year (2024-12-30 is a Monday), or the date of
\* the base.
WeekDates == {None} \cup {Some(Date(d, 12, Some(2024))) : d \in {30, 31}}
                    \cup {Some(Date(d, 1, Some(2025))) : d \in 1..5}

WeekdayBuilders ==
    {[new EXCEPT !.date = d, !.time = t, !.weekday = Some(Weekday(n, x))] :
        d \in WeekDates, t \in {None, Some(Time(6, 14, 49567, None))},
        n \in (-2)..MaxWeeks, x \in 0..6}

\* A date and a time, late in the evening or early in the morning of the last
\* or first day of a month, and a timezone item.
ZoneBuilders ==
    {[new EXCEPT !.date = Some(d), !.time = Some(t), !.timezone = Some(tz)] :
        d \in {Date(31, 1, Some(2024)), Date(31, 7, Some(2023)), Date(31, 12, Some(2024)),
               Date(1, 3, Some(2025))},
        t \in {Time(23, 30, 500, None), Time(0, 10, 0, None), Time(23, 30, 0, Some(3600))},
        tz \in {-43200, -18000, 3600, 19800, 50400}}

\* Month units, alone or after a date in a month of 28, 29, 30 or 31 days.
MonthDates ==
    {None, Some(Date(15, 12, Some(2024))), Some(Date(10, 2, Some(2024))),
     Some(Date(10, 2, Some(2023))), Some(Date(31, 1, Some(2025))), Some(Date(30, 4, Some(2024)))}

MonthBuilders ==
    {[new EXCEPT !.date = d, !.time = t, !.relative = r] :
        d \in MonthDates, t \in {None, Some(Time(6, 14, 49567, None))},
        r \in UNION {[1..n -> {Relative("Months", x) : x \in {-2, -1, 1, 3}}] :
                        n \in 1..MaxRelative}}

\* A timestamp item alone, over the range of i32.
TimestampBuilders ==
    {[new EXCEPT !.timestamp = Some(ts)] :
        ts \in {1690466034, 0, -1, 86399, 2147483647, -2147483647 - 1}}

\* A date with its year as the only item: the first day and the last days of
\* every month, the days a month does not have included.
DateYears == {0, 1970, 2023, 2024, 9999, 262142}
DateBuilders ==
    {[new EXCEPT !.date = Some(Date(d, m, Some(y)))] :
        d \in {1, 28, 29, 30, 31}, m \in 1..12, y \in DateYears}

\* One unit of years, after a date or from the base: 2000 and 2028 are leap
\* years, 2100 is not.
YearShifts == {-24, -4, -1, 0, 1, 4, 76}
YearDates ==
    {None, Some(Date(29, 2, Some(2024))), Some(Date(28, 2, Some(2023))),
     Some(Date(31, 12, Some(2024))), Some(Date(29, 2, None))}
YearBuilders ==
    {[new EXCEPT !.date = d, !.time = t, !.relative = <<Relative("Years", n)>>] :
        d \in YearDates, t \in {None, Some(Time(6, 14, 49567, None))}, n \in YearShifts}

\* A date, with or without its year, after a timestamp or alone: 1709210096 is
\* 2024-02-29T12:34:56 UTC and -1 is the last second of 1969.
StampedDateBuilders ==
    {[new EXCEPT !.timestamp = ts, !.date = Some(d)] :
        ts \in {None, Some(1690466034), Some(1709210096), Some(0), Some(-1)},
        d \in {Date(18, 7, None), Date(29, 2, None), Date(31, 12, None),
                Date(1, 1, Some(2005)), Date(31, 4, None)}}

\* A weekday item after a timestamp, with and without a date and a time.
StampedWeekdayBuilders ==
    {[new EXCEPT !.timestamp = Some(ts), !.date = d, !.time = t,
                 !.weekday = Some(Weekday(n, x))] :
        ts \in {1690466034, -1}, d \in {None, Some(Date(18, 7, None))},
        t \in {None, Some(Time(6, 14, 49567, None))}, n \in {-1, 0, 1}, x \in 0..6}

ResolveBuilders ==
    WeekdayBuilders \cup ZoneBuilders \cup MonthBuilders \cup TimestampBuilders
        \cup DateBuilders \cup YearBuilders \cup StampedDateBuilders
        \cup StampedWeekdayBuilders

InitResolve ==
    /\ input = <<>>
    /\ pos = 1
    /\ builder \in ResolveBuilders
    /\ pc = "parsed"
    /\ ret = Some(OkB(builder))
    /\ base = None
    /\ out = None

SpecResolve == InitResolve /\ [][NextBuild]_vars

-----------------------------------------------------------------------------
(* C12, C13, C14: the weekday item *)

\* The instant the weekday item starts from: the result without it.
BeforeWeekday == at_date([Given EXCEPT !.weekday = None], Unwrap(base))

\* A weekday item and neither relative nor timezone item.
WeekdayCase ==
    /\ Resolved
    /\ IsSome(Given.weekday) /\ Given.relative = <<>> /\ ~IsSome(Given.timezone)
    /\ BeforeWeekday.tag = "ok"

TargetDay == Unwrap(Given.weekday).day
WeekOffset == Unwrap(Given.weekday).offset
WorkingDay == BeforeWeekday.dt.days
\* Day of the week of a count of days, Monday being 0.
DayOfWeek(days) == (days + 3) % 7
\* The days by which the weekday item moved the date.
Moved == Result.dt.days - WorkingDay
\* The occurrences of the target day from day a to day b.
Occurrences(a, b) == {z \in a..b : DayOfWeek(z) = TargetDay}

\* C12: a weekday item of week offset N >= 1 and day X (no relative or
\* timezone item) gives the N-th X strictly after the working date: 7*N days
\* later when the working date is an X, ((X - current) mod 7) + 7*(N-1) days
\* later otherwise; "next X" is "this X" when the working date is not an X.
C12_NthOccurrenceAfter ==
    (WeekdayCase /\ WeekOffset >= 1) =>
        /\ Result.tag = "ok"
        /\ Moved = IF DayOfWeek(WorkingDay) = TargetDay
                   THEN 7 * WeekOffset
                   ELSE ((TargetDay - DayOfWeek(WorkingDay)) % 7) + 7 * (WeekOffset - 1)
        /\ Moved >= 1
        /\ DayOfWeek(Result.dt.days) = TargetDay
        /\ Cardinality(Occurrences(WorkingDay + 1, Result.dt.days)) = WeekOffset
        /\ (WeekOffset = 1 /\ DayOfWeek(WorkingDay) # TargetDay) =>
              Result = at_date([Given EXCEPT !.weekday = Some(Weekday(0, TargetDay))],
                               Unwrap(base))

\* Base Wednesday 2025-01-01: "2 thu" is 8 days later, at midnight.
C12_Witness ==
    /\ WeekdayCase
    /\ Given = [new EXCEPT !.weekday = Some(Weekday(2, 3))]
    /\ base = Some(LocalDt(2025, 1, 1, 0, 0, 0, 0))
    /\ Result = OkAt(LocalDt(2025, 1, 9, 0, 0, 0, 0))

\* C13: a weekday item of week offset -1 ("last X") gives the most recent X
\* strictly before the working date, 1 to 7 days earlier and exactly 7 when
\* the working date is an X; a zero or negative week offset is never
\* decremented, so every week below -1 is 7 more days back.
C13_LastOccurrenceBefore ==
    /\ (WeekdayCase /\ WeekOffset = -1) =>
          /\ Result.tag = "ok"
          /\ DayOfWeek(Result.dt.days) = TargetDay
          /\ -Moved \in 1..7
          /\ (DayOfWeek(WorkingDay) = TargetDay) => Moved = -7
          /\ Occurrences(Result.dt.days + 1, WorkingDay - 1) = {}
    /\ (WeekdayCase /\ WeekOffset <= 0) =>
          /\ Result.tag = "ok"
          /\ Moved = ((TargetDay - DayOfWeek(WorkingDay)) % 7) + 7 * WeekOffset

\* Base Wednesday 2025-01-01: "last thu" is 6 days earlier, 2024-12-26.
C13_Witness ==
    /\ WeekdayCase
    /\ Given = [new EXCEPT !.weekday = Some(Weekday(-1, 3))]
    /\ base = Some(LocalDt(2025, 1, 1, 0, 0, 0, 0))
    /\ Result = OkAt(LocalDt(2024, 12, 26, 0, 0, 0, 0))

\* C14: a weekday item of week offset 0 ("this X") gives the first X on or
\* after the working date: the working date when it is an X, 1 to 6 days
\* ahead otherwise, never in the past.
C14_ThisOccurrence ==
    (WeekdayCase /\ WeekOffset = 0) =>
        /\ Result.tag = "ok"
        /\ DayOfWeek(Result.dt.days) = TargetDay
        /\ Moved \in 0..6
        /\ (DayOfWeek(WorkingDay) = TargetDay) <=> Moved = 0
        /\ Occurrences(WorkingDay, Result.dt.days - 1) = {}

\* Working date Friday 2025-01-03 with a time item, "this mon": three days on.
C14_Witness ==
    /\ WeekdayCase
    /\ Given = [new EXCEPT !.date = Some(Date(3, 1, Some(2025))),
                           !.time = Some(Time(6, 14, 49567, None)),
                           !.weekday = Some(Weekday(0, 0))]
    /\ Result.tag = "ok"
    /\ Result.dt.days = DaysFromCivil(2025, 1, 6)
    /\ Result.dt.sod = 6 * 3600 + 14 * 60 + 49

-----------------------------------------------------------------------------
(* C15: the timezone item *)

\* The instant the timezone item is applied to: the result without it.
BeforeZone == at_date([Given EXCEPT !.timezone = None], Unwrap(base))

\* C15: with a timezone item of a representable offset, resolution succeeds
\* and the result has the offset of the item and exactly the year, month, day,
\* hour, minute, second and sub-second of the instant computed before it,
\* whatever the old and the new offset are; the moment in UTC moves by the
\* difference of the offsets.
C15_WallClockRelabelled ==
    (/\ Resolved
     /\ IsSome(Given.timezone)
     /\ Unwrap(Given.timezone) > -86400 /\ Unwrap(Given.timezone) < 86400
     /\ BeforeZone.tag = "ok")
        => Result = OkAt([BeforeZone.dt EXCEPT !.off = Unwrap(Given.timezone)])

-----------------------------------------------------------------------------
(* The resolver on items at and beyond the limits of the calendar and of the
   integers *)

RangeRelatives ==
    {Relative("Years", x) : x \in {2147483647, -2147483647, 300000, -300000}}
    \cup {Relative("Months", x) : x \in {153391690, 138547333, 2147483647, -2147483647, 40000000}}
    \cup {Relative("Days", x) : x \in {2147483647, -2147483647, 100000000}}
    \cup {Relative("Hours", x) : x \in {2147483647, -2147483647}}
    \cup {Relative("Minutes", x) : x \in {2147483647, -2147483647}}

RangeDates ==
    {Date(31, 2, Some(2024)), Date(29, 2, Some(2023)), Date(31, 4, None), Date(1, 13, Some(2024)),
     Date(0, 1, Some(2024)), Date(1, 1, Some(300000)), Date(31, 12, Some(262142))}

RangeBuilders ==
    {[new EXCEPT !.date = d, !.relative = <<r>>] :
        d \in {None, Some(Date(10, 2, Some(2023)))}, r \in RangeRelatives}
    \cup {[new EXCEPT !.date = Some(d), !.time = t] :
            d \in RangeDates, t \in {None, Some(Time(23, 59, 59000, None))}}
    \cup {[new EXCEPT !.time = Some(t)] : t \in {Time(24, 0, 0, None), Time(12, 60, 0, None)}}
    \cup {[new EXCEPT !.weekday = Some(Weekday(n, x))] :
            n \in {306783379, 306783378, 2147483647, -306783379, -306783378}, x \in {0, 4}}
    \cup {[new EXCEPT !.timezone = Some(tz)] : tz \in {86400, -90000, 86399}}

InitRange ==
    /\ input = <<>>
    /\ pos = 1
    /\ builder \in RangeBuilders
    /\ pc = "parsed"
    /\ ret = Some(OkB(builder))
    /\ base = None
    /\ out = None

SpecRange == InitRange /\ [][NextBuild]_vars

-----------------------------------------------------------------------------
(* C16: failures of the resolution *)

\* C16: every out-of-range outcome during resolution is reported as the
\* InvalidInput failure: resolution never aborts and never goes on with wrapped
\* arithmetic.
C16_OnlyInvalidInput ==
    Resolved =>
        /\ Result.tag \in {"ok", "InvalidInput"}
        /\ build(Given, Unwrap(base)).ovf => Result.tag = "InvalidInput"

-----------------------------------------------------------------------------
(* C17: month units *)

\* Month units only, after an anchor item or alone, and no timezone item.
MonthsCase ==
    /\ Resolved
    /\ Len(Given.relative) >= 1
    /\ \A i \in 1..Len(Given.relative) : Given.relative[i].unit = "Months"
    /\ Anchored \/ Len(Given.relative) = 1
    /\ ~IsSome(Given.timezone)

\* The instant the units start from: the result without them, or the base
\* itself when there is no anchor item.
BeforeMonths ==
    IF Anchored THEN at_date([Given EXCEPT !.relative = <<>>], Unwrap(base))
    ELSE OkAt(Unwrap(base))

\* The day reached from a day by the units from the i-th on, each moving by
\* its count times the length of the month the day is then in.
RECURSIVE AfterMonths(_, _, _)
AfterMonths(days, rels, i) ==
    IF i > Len(rels) THEN days
    ELSE AfterMonths(days + rels[i].x * MonthLength(CivilFromDays(days).year,
                                                    CivilFromDays(days).month),
                     rels, i + 1)

\* C17: Months(n), n positive or negative, moves the working instant by D*n
\* days, D being the number of days of the month the instant is in when the
\* unit is applied (leap years and December included); time of day and offset
\* are unchanged, and of several units each takes D from the instant the one
\* before it gave.
C17_MonthsAsDays ==
    (MonthsCase /\ BeforeMonths.tag = "ok") =>
        Result = OkAt([BeforeMonths.dt EXCEPT
                          !.days = AfterMonths(BeforeMonths.dt.days, Given.relative, 1)])

\* 2025-01-31 06:14:49.567 and one month: 31 days later, 2025-03-03, not the
\* end of February.
C17_Witness ==
    /\ MonthsCase
    /\ Given = [new EXCEPT !.date = Some(Date(31, 1, Some(2025))),
                           !.time = Some(Time(6, 14, 49567, None)),
                           !.relative = <<Relative("Months", 1)>>]
    /\ Result.tag = "ok"
    /\ Result.dt.days = DaysFromCivil(2025, 3, 3)
    /\ Result.dt.sod = 6 * 3600 + 14 * 60 + 49

-----------------------------------------------------------------------------
(* C18: a year after the date and the time *)

\* The input is a Date item without a year, a Time item and a Year item.
DateTimeYear ==
    /\ Returned
    /\ Len(input) = 3 /\ \A i \in 1..3 : IsItem(i)
    /\ ItemAt(1).kind = "Date" /\ ~IsSome(ItemAt(1).val.year)
    /\ ItemAt(2).kind = "Time"
    /\ ItemAt(3).kind = "Year"

\* What parse returns for the same date with the year in it, then the time.
DatedTime ==
    Accumulate(new, <<Item("Date", [ItemAt(1).val EXCEPT !.year = Some(ItemAt(3).val)]),
                      ItemAt(2)>>, 1)

\* C18: the items [Date(day, month, no year), Time t, Year y] and the items
\* [Date(day, month, year y), Time t] are both accepted, and resolve against
\* the same base to the same instant.
C18_YearJoinsDate ==
    DateTimeYear =>
        /\ ReturnedOk
        /\ DatedTime.tag = "ok"
        /\ Resolved => Result = at_date(Unwrap(DatedTime.builder), Unwrap(base))

\* "Jul 18 06:14:49.567 2024" against 2025-01-01T00:00:00+00:00.
C18_Witness ==
    /\ DateTimeYear /\ Resolved
    /\ ItemAt(1).val = Date(18, 7, None)
    /\ ItemAt(2).val = Time(6, 14, 49567, None)
    /\ ItemAt(3).val = 2024
    /\ base = Some(LocalDt(2025, 1, 1, 0, 0, 0, 0))
    /\ Result = OkAt([LocalDt(2024, 7, 18, 6, 14, 49, 0) EXCEPT !.nano = 567000000])

-----------------------------------------------------------------------------
(* C19: the timestamp item *)

\* C19: with a Timestamp(ts) item as the only item, the result is the moment
\* ts seconds after 1970-01-01T00:00:00 UTC, in the offset of the base,
\* whatever the date and the time of day of the base.
C19_SecondsSinceEpoch ==
    (Resolved /\ IsSome(Given.timestamp) /\ Given = [new EXCEPT !.timestamp = Given.timestamp])
        => /\ Result.tag = "ok"
           /\ UtcOf(Result.dt) =
                 <<Unwrap(Given.timestamp) \div 86400, Unwrap(Given.timestamp) % 86400, 0>>
           /\ Result.dt.off = Unwrap(base).off

\* "@1690466034" against a base at -03:00: 2023-07-27T10:53:54-03:00, which is
\* 13:53:54 UTC.
C19_Witness ==
    /\ Resolved
    /\ Given = [new EXCEPT !.timestamp = Some(1690466034)]
    /\ base = Some(LocalDt(2023, 7, 31, 22, 10, 5, -10800))
    /\ Result = OkAt(LocalDt(2023, 7, 27, 10, 53, 54, -10800))
    /\ UtcOf(Result.dt) = UtcOf(LocalDt(2023, 7, 27, 13, 53, 54, 0))

-----------------------------------------------------------------------------
(* C23: a date is resolved to itself *)

OnlyDate == Resolved /\ IsSome(Given.date) /\ Given = [new EXCEPT !.date = Given.date]
GivenDate == Unwrap(Given.date)

\* A date of the calendar, with its year.
ValidDate(d) ==
    /\ IsSome(d.year)
    /\ d.month \in 1..12
    /\ d.day >= 1
    /\ d.day <= (IF d.month = 2 THEN (IF IsLeapYear(Unwrap(d.year)) THEN 29 ELSE 28)
                 ELSE IF d.month \in {4, 6, 9, 11} THEN 30 ELSE 31)

\* C23: a valid date Y-M-D with its year, as the only item, resolves against
\* every base to an instant whose year is Y, month M and day D: written as
\* %Y-%m-%d the result is the date given.
C23_DateRoundTrip ==
    (OnlyDate /\ ValidDate(GivenDate))
        => /\ Result.tag = "ok"
           /\ YearOf(Result.dt) = Unwrap(GivenDate.year)
           /\ MonthOf(Result.dt) = GivenDate.month
           /\ DayOf(Result.dt) = GivenDate.day

\* 2024-02-29 against 2023-07-31T22:10:05-03:00.
C23_Witness ==
    /\ OnlyDate
    /\ GivenDate = Date(29, 2, Some(2024))
    /\ base = Some(LocalDt(2023, 7, 31, 22, 10, 5, -10800))
    /\ Result = OkAt(LocalDt(2024, 2, 29, 0, 0, 0, -10800))

-----------------------------------------------------------------------------
(* C24: the empty string *)

EmptyInput == \A i \in 1..Len(input) : input[i].ws

\* C24: on an input that is empty or whitespace only, parse returns a builder
\* with no slot set and no relative unit, and resolving it gives 00:00:00 of
\* the base's date in the base's offset.
C24_BeginningOfToday ==
    (EmptyInput /\ pc # "loop")
        => /\ ReturnedOk
           /\ Given.relative = <<>>
           /\ \A f \in {"timestamp", "date", "time", "weekday", "timezone"} : Given[f] = None
           /\ Resolved => Result = OkAt([Unwrap(base) EXCEPT !.sod = 0, !.nano = 0])

\* Whitespace against 2023-07-31T22:10:05-03:00: 2023-07-31T00:00:00-03:00.
C24_Witness ==
    /\ input = <<WS>>
    /\ Resolved
    /\ base = Some(LocalDt(2023, 7, 31, 22, 10, 5, -10800))
    /\ Result = OkAt(LocalDt(2023, 7, 31, 0, 0, 0, -10800))

-----------------------------------------------------------------------------
(* C25: a unit of years *)

YearsCase ==
    /\ Resolved
    /\ Len(Given.relative) = 1 /\ Given.relative[1].unit = "Years"
    /\ ~IsSome(Given.timezone)
    /\ Anchored => Working.tag = "ok"

\* The instant the unit is applied to: the base when there is no anchor item.
BeforeYears == IF Anchored THEN Working.dt ELSE Unwrap(base)
YearAfter == YearOf(BeforeYears) + Given.relative[1].x

\* C25: Years(n) moves the year of the working instant by n and keeps its
\* month, day, time of day and offset; from 29 February to a year that is not
\* a leap year the resolution fails: the day is neither clamped to the 28th
\* nor rolled over to 1 March.
C25_YearsKeepFields ==
    YearsCase =>
        IF MonthOf(BeforeYears) = 2 /\ DayOf(BeforeYears) = 29 /\ ~IsLeapYear(YearAfter)
        THEN Result.tag = "InvalidInput"
        ELSE /\ Result.tag = "ok"
             /\ YearOf(Result.dt) = YearAfter
             /\ MonthOf(Result.dt) = MonthOf(BeforeYears)
             /\ DayOf(Result.dt) = DayOf(BeforeYears)
             /\ Result.dt.sod = BeforeYears.sod
             /\ Result.dt.nano = BeforeYears.nano
             /\ Result.dt.off = BeforeYears.off

\* "2024-02-29 1 year": there is no 29 February 2025.
C25_Witness ==
    /\ YearsCase
    /\ Given = [new EXCEPT !.date = Some(Date(29, 2, Some(2024))),
                           !.relative = <<Relative("Years", 1)>>]
    /\ BeforeYears = LocalDt(2024, 2, 29, 0, 0, 0, Unwrap(base).off)
    /\ Result.tag = "InvalidInput"

-----------------------------------------------------------------------------
(* C26: one source for the offset *)

EmbeddedOffset(b) == IsSome(b.time) /\ IsSome(Unwrap(b.time).offset)

\* C26: in every builder parse returns, the timezone slot and a time with an
\* embedded offset are never both set, whatever the order of the items.
C26_OneOffsetSource ==
    ReturnedOk => ~(IsSome(Given.timezone) /\ EmbeddedOffset(Given))

-----------------------------------------------------------------------------
(* C27: the ordered choice of parse_one *)

\* One fragment for every alternative, in the order of the alternatives.
SampleVals ==
    <<CombinedDateTime(Date(19, 5, Some(2025)), Time(6, 14, 49000, None)),
      Date(18, 7, None), Time(6, 14, 49567, None), Relative("Days", -2),
      Weekday(1, 3), 1690466034, 3600, 2024>>

\* Every text by what the eight alternatives do on it: each one fails softly,
\* fails hard, or succeeds, whatever the others do.
ChoiceChunks ==
    {[ws |-> FALSE,
      alts |-> [k \in 1..Len(AltKinds) |->
                  IF o[k] = "ok" THEN Ok(SampleVals[k]) ELSE IF o[k] = "cut" THEN Cut ELSE Soft]] :
        o \in [1..Len(AltKinds) -> {"soft", "cut", "ok"}]}

\* One such text, alone or followed by whitespace or by one more item.
ChoiceInputs ==
    {<<c>> : c \in ChoiceChunks}
        \cup {<<c, d>> : c \in ChoiceChunks, d \in {WS, Only(4, Relative("Months", 1))}}

InitChoice ==
    /\ input \in ChoiceInputs
    /\ pos = 1
    /\ builder = new
    /\ pc = "loop"
    /\ ret = None
    /\ base = None
    /\ out = None

SpecChoice == InitChoice /\ [][Next]_vars

\* The order section 4.1 gives the alternatives.
Priority ==
    <<"DateTime", "Date", "Time", "Relative", "Weekday", "Timestamp", "TimeZone", "Year">>

AtChunk == pc = "loop" /\ pos <= Len(input)
Tried == input[pos].alts
Decisive(k) == Tried[k].res # "soft" /\ \A j \in 1..(k - 1) : Tried[j].res = "soft"

C27_State ==
    AtChunk =>
        /\ (\A k \in 1..8 : Tried[k].res = "soft") =>
              (One.tag = "backtrack" /\ One.pos = pos)
        /\ \A k \in 1..8 :
              /\ (Decisive(k) /\ Tried[k].res = "ok") =>
                    /\ One.tag = "ok"
                    /\ One.item = Some(Item(Priority[k], Unwrap(Tried[k].val)))
              /\ (Decisive(k) /\ Tried[k].res = "cut") =>
                    (One.tag = "cut" /\ One.pos = pos)

C27_Step ==
    (AtChunk /\ \E k \in 1..8 : Decisive(k) /\ Tried[k].res = "cut")
        => /\ pc' = "parsed"
           /\ Unwrap(ret').tag = "err"
           /\ pos' = pos

\* C27: parse_one tries combined date-time, date, time, relative, weekday,
\* epoch, timezone and year in this order and returns the item of the first
\* alternative that succeeds; when all fail softly it fails softly where it
\* started; a hard failure of an alternative is returned at once by parse_one,
\* later alternatives untried, and parse returns it as its error instead of
\* ending the item stream.
C27_FirstMatchWins == []C27_State /\ [][C27_Step]_vars

\* The time parser fails hard on a text the weekday parser would accept:
\* parse has returned the error and left the input where it was.
C27_Witness ==
    /\ pc = "parsed"
    /\ Len(input) = 1 /\ pos = 1
    /\ input[1].alts[1] = Soft /\ input[1].alts[2] = Soft
    /\ input[1].alts[3] = Cut /\ input[1].alts[5] = Ok(Weekday(1, 3))
    /\ ret = Some(Err("fragment parser error"))

-----------------------------------------------------------------------------
(* C28: what a date item replaces *)

DateCase ==
    /\ Resolved
    /\ IsSome(Given.date)
    /\ Given = [new EXCEPT !.timestamp = Given.timestamp, !.date = Given.date]

\* The working instant the date item finds: the moment of the timestamp as
\* the offset of the base shows it, or the start of the base's day.
BeforeDate ==
    IF IsSome(Given.timestamp)
    THEN Later([days |-> 0, sod |-> 0, nano |-> 0, off |-> Unwrap(base).off],
               Unwrap(Given.timestamp) \div 86400,
               (Unwrap(Given.timestamp) % 86400) + Unwrap(base).off)
    ELSE [Unwrap(base) EXCEPT !.sod = 0, !.nano = 0]

\* The date given, its year taken from the working instant when it has none.
DateMeant ==
    [GivenDate EXCEPT !.year = IF IsSome(GivenDate.year) THEN GivenDate.year
                               ELSE Some(YearOf(BeforeDate))]

\* C28: a date item replaces the year, month and day of the working instant
\* and keeps its hour, minute, second, sub-second and offset; a year that is
\* missing is the year of the working instant: the year of the timestamp when
\* there is one, the year of the base otherwise.
C28_DateKeepsTimeOfDay ==
    (DateCase /\ ValidDate(DateMeant))
        => Result =
              OkAt([BeforeDate EXCEPT
                      !.days = DaysFromCivil(Unwrap(DateMeant.year), DateMeant.month,
                                             DateMeant.day)])

\* "@1690466034" and 18 July against a base at -03:00: the timestamp is
\* 2023-07-27T10:53:54-03:00, the result 2023-07-18T10:53:54-03:00.
C28_Witness ==
    /\ DateCase
    /\ Given.timestamp = Some(1690466034)
    /\ GivenDate = Date(18, 7, None)
    /\ base = Some(LocalDt(2023, 7, 31, 22, 10, 5, -10800))
    /\ Result = OkAt(LocalDt(2023, 7, 18, 10, 53, 54, -10800))

-----------------------------------------------------------------------------
(* C29: the time of day under a weekday item *)

GivenTime == Unwrap(Given.time)

\* C29: with a weekday item and no time (neither a time item nor a combined
\* date-time), the hour, minute, second and sub-second of the result are zero,
\* even after a timestamp that is not at midnight; with a time its time of day
\* is kept; either way, with no relative and no timezone item, the result
\* falls on the day of the week asked for.
C29_WeekdayZeroesTime ==
    WeekdayCase =>
        /\ Result.tag = "ok"
        /\ DayOfWeek(Result.dt.days) = TargetDay
        /\ IF IsSome(Given.time)
           THEN /\ Result.dt.sod = GivenTime.hour * 3600 + GivenTime.minute * 60
                                      + GivenTime.second \div 1000
                /\ Result.dt.nano = (GivenTime.second % 1000) * 1000000
           ELSE Result.dt.sod = 0 /\ Result.dt.nano = 0

\* "@1690466034 next mon" against a base at -03:00: the timestamp is Thursday
\* 2023-07-27T10:53:54-03:00, the result Monday 2023-07-31T00:00:00-03:00.
C29_Witness ==
    /\ WeekdayCase
    /\ Given = [new EXCEPT !.timestamp = Some(1690466034), !.weekday = Some(Weekday(1, 0))]
    /\ base = Some(LocalDt(2023, 7, 31, 22, 10, 5, -10800))
    /\ BeforeWeekday = OkAt(LocalDt(2023, 7, 27, 10, 53, 54, -10800))
    /\ Result = OkAt(LocalDt(2023, 7, 31, 0, 0, 0, -10800))

-----------------------------------------------------------------------------
(* C30: what a year item changes *)

YearAccepted == Recognized("Year") /\ Accepts

C30_Step ==
    YearAccepted =>
        /\ IF IsSome(builder.date)
           THEN /\ ~IsSome(Unwrap(builder.date).year)
                /\ builder'.date =
                      Some(Date(Unwrap(builder.date).day, Unwrap(builder.date).month,
                                Some(Fragment)))
           ELSE builder'.date = Some(Date(1, 1, Some(Fragment)))
        /\ \A f \in {"timestamp", "time", "weekday", "timezone", "relative"} :
              builder'[f] = builder[f]

\* C30: a year item y accepted while the date slot holds a date without a year
\* gives the same day and month with the year y; accepted while the date slot
\* is empty it gives the first of January of y; no other slot changes.
C30_YearChangesDateOnly == [][C30_Step]_vars

\* "06:14:49.567 Jul 18 2024": after the year the builder holds the time and
\* 18 July 2024.
C30_Witness ==
    /\ pc = "loop" /\ pos = 4
    /\ Len(input) = 3 /\ \A i \in 1..3 : IsItem(i)
    /\ ItemAt(1).kind = "Time" /\ ItemAt(1).val = Time(6, 14, 49567, None)
    /\ ItemAt(2).kind = "Date" /\ ItemAt(2).val = Date(18, 7, None)
    /\ ItemAt(3).kind = "Year" /\ ItemAt(3).val = 2024
    /\ builder = [new EXCEPT !.time = Some(Time(6, 14, 49567, None)),
                             !.date = Some(Date(18, 7, Some(2024)))]

-----------------------------------------------------------------------------
(* C31: parse terminates *)

\* One iteration of the loop of parse, whatever parse_one returns.
Iteration ==
    \/ OnTimestamp \/ OnYear \/ OnDateTime \/ OnDate \/ OnTime \/ OnWeekday
    \/ OnTimeZone \/ OnRelative \/ OnBacktrack \/ OnCut

\* parse is a sequential function: once called, its loop keeps running.
SpecLive == Init /\ [][Next]_vars /\ WF_vars(Iteration)

\* An iteration either recognizes an item, which moves the input forward, and
\* goes on, or it is the last one.
C31_Step ==
    pc = "loop" => \/ pc' = "loop" /\ pos' = pos + 1 /\ pos <= Len(input)
                   \/ pc' = "parsed"

-----------------------------------------------------------------------------
(* The TZ rule interpreter (src/src/items/tz_rule.rs)                      *)
(*                                                                         *)
(* Here `input` is the text itself (a string), `pos` the index of the      *)
(* first character the parser left unconsumed, and `ret` the value the     *)
(* parser returned.  A parser result is [ok, val, pos]: on failure pos is  *)
(* the position the parser started from.                                   *)
(* A jiff TimeZone is [kind, name, seconds]: TimeZone::UTC, a zone of the  *)
(* zone table, or a fixed offset.                                          *)

Letters ==
    {"a", "b", "c", "d", "e", "f", "g", "h", "i", "j", "k", "l", "m",
     "n", "o", "p", "q", "r", "s", "t", "u", "v", "w", "x", "y", "z",
     "A", "B", "C", "D", "E", "F", "G", "H", "I", "J", "K", "L", "M",
     "N", "O", "P", "Q", "R", "S", "T", "U", "V", "W", "X", "Y", "Z"}

DigitValue ==
    ("0" :> 0) @@ ("1" :> 1) @@ ("2" :> 2) @@ ("3" :> 3) @@ ("4" :> 4) @@
    ("5" :> 5) @@ ("6" :> 6) @@ ("7" :> 7) @@ ("8" :> 8) @@ ("9" :> 9)

CharAt(s, i) == IF i >= 1 /\ i <= Len(s) THEN SubSeq(s, i, i) ELSE ""

Okp(v, p) == [ok |-> TRUE, val |-> v, pos |-> p]
Failp(p)  == [ok |-> FALSE, val |-> "", pos |-> p]

min(a, b) == IF a <= b THEN a ELSE b

TimeZoneUTC == [kind |-> "UTC", name |-> "UTC", seconds |-> 0]
TimeZoneNamed(n) == [kind |-> "named", name |-> n, seconds |-> 0]

\* Offset::to_time_zone / TimeZone::fixed: the zero offset is TimeZone::UTC.
to_time_zone(seconds) ==
    IF seconds = 0 THEN TimeZoneUTC
    ELSE [kind |-> "fixed", name |-> "", seconds |-> seconds]

\* TimeZone::to_fixed_offset, in seconds: None for a zone of the table.
to_fixed_offset(tz) == IF tz.kind = "named" THEN None ELSE Some(tz.seconds)

\* Offset::from_seconds accepts -93599..93599.
OffsetMax == 93599

\* The zone names of the zone table TimeZone::get looks into.
ZoneTable == {"America/New_York", "Etc/UTC", "Japan", "GB", "UTC"}

\* TimeZone::get(name): None when the table has no such name.
TimeZoneGet(n) ==
    IF n = "UTC" THEN Some(TimeZoneUTC)
    ELSE IF n \in ZoneTable THEN Some(TimeZoneNamed(n))
    ELSE None

\* take_while(3.., AsChar::is_alpha): the end of the run of letters at p.
RECURSIVE alpha_end(_, _)
alpha_end(s, p) == IF CharAt(s, p) \in Letters THEN alpha_end(s, p + 1) ELSE p

proleptic_std(s, p) ==
    IF alpha_end(s, p) - p >= 3 THEN Okp(TimeZoneUTC, alpha_end(s, p)) ELSE Failp(p)

RECURSIVE digit_end(_, _)
digit_end(s, p) == IF CharAt(s, p) \in DOMAIN DigitValue THEN digit_end(s, p + 1) ELSE p

RECURSIVE digits_value(_, _, _)
digits_value(s, p, e) ==
    IF e <= p THEN 0 ELSE digits_value(s, p, e - 1) * 10 + DigitValue[CharAt(s, e - 1)]

\* primitive::dec_uint: one or more decimal digits.
dec_uint(s, p) ==
    IF digit_end(s, p) = p THEN Failp(p)
    ELSE Okp(digits_value(s, p, digit_end(s, p)), digit_end(s, p))

\* primitive::plus_or_minus: one of '+' and '-'.
plus_or_minus(s, p) ==
    IF CharAt(s, p) \in {"+", "-"} THEN Okp(CharAt(s, p), p + 1) ELSE Failp(p)

\* preceded(':', dec_uint) after a successful r.
colon_uint(s, r) ==
    IF r.ok /\ CharAt(s, r.pos) = ":" THEN
        (IF dec_uint(s, r.pos + 1).ok THEN dec_uint(s, r.pos + 1) ELSE Failp(r.pos))
    ELSE Failp(r.pos)

\* offset_hms without the clamping of the components.
offset_hms_unclamped(s, p, sign) ==
    LET h == dec_uint(s, p)
        m == colon_uint(s, h)
        sec == colon_uint(s, m)
    IN  IF ~h.ok THEN Failp(p)
        ELSE IF sec.ok THEN Okp(sign * (h.val * 3600 + m.val * 60 + sec.val), sec.pos)
        ELSE IF m.ok THEN Okp(sign * (h.val * 3600 + m.val * 60), m.pos)
        ELSE Okp(sign * (h.val * 3600), h.pos)

\* The alternatives h:m:s, h:m and h of proleptic_offset, tried in this order,
\* on the text at p; sign is 1 or -1.
offset_hms(s, p, sign) ==
    LET h == dec_uint(s, p)
        m == colon_uint(s, h)
        sec == colon_uint(s, m)
    IN  IF ~h.ok THEN Failp(p)
        ELSE IF sec.ok THEN
            Okp(sign * (min(h.val, 24) * 3600 + min(m.val, 59) * 60 + min(sec.val, 59)), sec.pos)
        ELSE IF m.ok THEN
            Okp(sign * (min(h.val, 24) * 3600 + min(m.val, 59) * 60), m.pos)
        ELSE Okp(sign * (min(h.val, 24) * 3600), h.pos)

proleptic_offset(s, p) ==
    LET sg == plus_or_minus(s, p)
        r == offset_hms(s, sg.pos, IF sg.ok /\ sg.val = "-" THEN -1 ELSE 1)
    IN  IF r.ok THEN r ELSE Failp(p)

proleptic(s, p) ==
    LET std == proleptic_std(s, p)
        off == proleptic_offset(s, std.pos)
        seconds == Unwrap(to_fixed_offset(std.val)) + (IF off.ok THEN off.val ELSE 0)
    IN  IF ~std.ok THEN Failp(p)
        ELSE IF seconds < -OffsetMax \/ seconds > OffsetMax THEN Failp(p)
        ELSE Okp(to_time_zone(seconds), off.pos)

\* primitive::escaped_string: the text up to the first quote that no backslash
\* precedes, with \" and \\ replaced by the character escaped; a backslash
\* before any other character is a failure.  acc is the text read so far.
RECURSIVE escaped_string_from(_, _, _)
escaped_string_from(s, p, acc) ==
    IF CharAt(s, p) \in {"", "\""} THEN Okp(acc, p)
    ELSE IF CharAt(s, p) = "\\" THEN
        (IF CharAt(s, p + 1) \in {"\"", "\\"}
            THEN escaped_string_from(s, p + 2, acc \o CharAt(s, p + 1))
            ELSE Failp(p))
    ELSE escaped_string_from(s, p + 1, acc \o CharAt(s, p))

escaped_string(s, p) ==
    LET r == escaped_string_from(s, p, "")
    IN  IF r.ok /\ r.val # "" THEN r ELSE Failp(p)

\* geographical without the fallback: a name the table does not have fails.
geographical_strict(s, p) ==
    LET r == escaped_string(s, IF CharAt(s, p) = ":" THEN p + 1 ELSE p)
    IN  IF r.ok /\ IsSome(TimeZoneGet(r.val)) THEN Okp(Unwrap(TimeZoneGet(r.val)), r.pos)
        ELSE Failp(p)

geographical(s, p) ==
    LET r == escaped_string(s, IF CharAt(s, p) = ":" THEN p + 1 ELSE p)
    IN  IF ~r.ok THEN Failp(p)
        ELSE IF IsSome(TimeZoneGet(r.val)) THEN Okp(Unwrap(TimeZoneGet(r.val)), r.pos)
        ELSE Okp(TimeZoneUTC, r.pos)

\* alt((proleptic, geographical)): the first alternative that succeeds.
proleptic_or_geographical(s, p) ==
    IF proleptic(s, p).ok THEN proleptic(s, p) ELSE geographical(s, p)

\* tz_rule::parse: preceded("TZ=", delimited('"', alt(..), '"')).  Once an
\* alternative of alt has succeeded, a closing quote that is missing fails
\* the whole parser: the other alternative is not tried.
tz_rule_parse(s, p) ==
    LET r == proleptic_or_geographical(s, p + 4)
    IN  IF SubSeq(s, p, min(p + 3, Len(s))) # "TZ=\"" THEN Failp(p)
        ELSE IF ~r.ok THEN Failp(p)
        ELSE IF CharAt(s, r.pos) # "\"" THEN Failp(p)
        ELSE Okp(r.val, r.pos + 1)

\* The texts between the quotes: zone names with and without the colon, names
\* the table does not have, a name with escapes, and proleptic rules.
StdTexts == {"UTC", "ABC", "AB", "A1C", "LongName"}
OffsetTexts ==
    {"", "0", "+5", "-5", "25", "+5:30", "5:60", "-5:30:15", "5:30:60",
     "-25:61:61", "+", "5:", "+05:30:", "-0"}
\* Names the zone table does not have, and a name as it is written between
\* the quotes: a backslash before every quote and every backslash.
UnknownNames == {"Unknown/Timezone", "Foo\"Bar", "Back\\slash", "X", "Mars/Olympus_Mons"}

RECURSIVE Escaped(_)
Escaped(n) ==
    IF n = "" THEN ""
    ELSE IF SubSeq(n, 1, 1) \in {"\"", "\\"} THEN "\\" \o SubSeq(n, 1, 1) \o Escaped(SubSeq(n, 2, Len(n)))
    ELSE SubSeq(n, 1, 1) \o Escaped(SubSeq(n, 2, Len(n)))

\* Proleptic rules by their parts: the name, the sign as written ("" when
\* there is none) and the components h[:m[:s]]; comps is <<>> when the rule
\* has no offset.
RuleNames == {"UTC", "EST", "LongName"}
Hours == {0, 5, 24, 25}
MinSecs == {0, 30, 59, 60}
ProlepticRules ==
    [name : RuleNames, sign : {""}, comps : {<<>>}]
        \cup [name : RuleNames, sign : {"", "+", "-"},
              comps : {<<h>> : h \in Hours}
                        \cup {<<h, m>> : h \in Hours, m \in MinSecs}
                        \cup {<<h, m, sec>> : h \in Hours, m \in MinSecs, sec \in MinSecs}]

\* The components as written: decimal numbers joined by colons.
RECURSIVE CompsText(_)
CompsText(comps) ==
    IF comps = <<>> THEN ""
    ELSE IF Len(comps) = 1 THEN ToString(comps[1])
    ELSE ToString(comps[1]) \o ":" \o CompsText(Tail(comps))

RuleText(r) == r.name \o r.sign \o CompsText(r.comps)

RuleTexts ==
    ZoneTable
        \cup {RuleText(r) : r \in ProlepticRules}
        \cup {":" \o n : n \in ZoneTable}
        \cup {c \o Escaped(n) : c \in {"", ":"}, n \in UnknownNames}
        \cup {"Foo\\Bar", "+5"}
        \cup {a \o b : a \in StdTexts, b \in OffsetTexts}

Quoted(rule) == "TZ=\"" \o rule \o "\""

TzTexts ==
    RuleTexts
        \cup {Quoted(r) : r \in RuleTexts}
        \cup {Quoted("UTC") \o " 2 days", "TZ=\"UTC", "TZ=UTC", "tz=\"UTC\"", "TZ=\"\""}

InitTz ==
    /\ input \in TzTexts
    /\ pos = 1
    /\ builder = new
    /\ pc = "tz"
    /\ ret = None
    /\ base = None
    /\ out = None

\* One call of a parser of tz_rule.rs on the text: what it returned, and how
\* far it advanced the input.
TzCall(name, r) ==
    /\ pc = "tz"
    /\ pc' = name
    /\ pos' = r.pos
    /\ ret' = Some(r)
    /\ UNCHANGED <<input, builder, base, out>>

TzParse == TzCall("tz_parse", tz_rule_parse(input, pos))
TzProleptic == TzCall("tz_proleptic", proleptic(input, pos))
TzGeographical == TzCall("tz_geographical", geographical(input, pos))

NextTz == TzParse \/ TzProleptic \/ TzGeographical

SpecTz == InitTz /\ [][NextTz]_vars

TzResult == Unwrap(ret)
Consumed == SubSeq(input, 1, pos - 1)

-----------------------------------------------------------------------------
(* C20: zone names in a TZ rule *)

\* C20: for every zone name N of the zone table, `parse` applied to TZ="N" and
\* to TZ=":N" succeeds, consumes the text up to and including the closing
\* quote, and returns the zone N of the table.
C20_NamedZoneReturned ==
    \A n \in ZoneTable :
        (pc = "tz_parse" /\ input \in {Quoted(n), Quoted(":" \o n)})
            => /\ TzResult.ok
               /\ Consumed = input
               /\ TzResult.val = Unwrap(TimeZoneGet(n))

-----------------------------------------------------------------------------
(* C21: the offset of a proleptic rule *)

Component(r, i) == IF i <= Len(r.comps) THEN r.comps[i] ELSE 0

\* The offset the rule r stands for, in seconds: every component clamped.
ClampedOffset(r) ==
    (IF r.sign = "-" THEN -1 ELSE 1)
        * ((IF Component(r, 1) > 24 THEN 24 ELSE Component(r, 1)) * 3600
           + (IF Component(r, 2) > 59 THEN 59 ELSE Component(r, 2)) * 60
           + (IF Component(r, 3) > 59 THEN 59 ELSE Component(r, 3)))

ProlepticOn(r) == pc = "tz_proleptic" /\ input = RuleText(r)

\* C21: `proleptic` applied to a name of three or more letters, an optional
\* sign and components h[:m[:s]] succeeds, consumes the rule, and returns the
\* fixed offset sign * (min(h,24)*3600 + min(m,59)*60 + min(s,59)), whatever the
\* letters of the name; the magnitude is at most 24:59:59.
C21_ClampedOffset ==
    \A r \in ProlepticRules :
        ProlepticOn(r)
            => /\ TzResult.ok
               /\ Consumed = input
               /\ to_fixed_offset(TzResult.val) = Some(ClampedOffset(r))
               /\ ClampedOffset(r) \in (-89999)..89999

\* "UTC+5:60" gives +05:59 and "EST-25:60:60" gives -24:59:59.
C21_Witness ==
    \/ /\ pc = "tz_proleptic" /\ input = "UTC+5:60"
       /\ TzResult = Okp(to_time_zone(5 * 3600 + 59 * 60), 9)
    \/ /\ pc = "tz_proleptic" /\ input = "EST-25:60:60"
       /\ TzResult = Okp(to_time_zone(-89999), 13)

-----------------------------------------------------------------------------
(* C22: names the zone table does not have *)

\* C22: `geographical` applied to an escaped name that the zone table does not
\* have, with or without the leading colon, succeeds, consumes the name and
\* returns UTC.
C22_UnknownNameIsUTC ==
    \A n \in UnknownNames : \A c \in {"", ":"} :
        (pc = "tz_geographical" /\ input = c \o Escaped(n))
            => /\ TimeZoneGet(n) = None
               /\ TzResult.ok
               /\ Consumed = input
               /\ TzResult.val = TimeZoneUTC

\* ":Unknown/Timezone", and Foo\"Bar whose quote is escaped.
C22_Witness ==
    \/ /\ pc = "tz_geographical" /\ input = ":Unknown/Timezone"
       /\ TzResult = Okp(TimeZoneUTC, 18)
    \/ /\ pc = "tz_geographical" /\ input = "Foo\\\"Bar"
       /\ TzResult = Okp(TimeZoneUTC, 9)

=============================================================================
